---- MODULE Spec2Model ----
(***************************************************************************)
(* Trace-context propagation of optima_core: the identifier generator      *)
(* (tracing/ids.py), the Context Store (tracing/context.py), the outbound  *)
(* header mapper and the request lifecycle middleware                      *)
(* (tracing/middleware.py) and the traced HTTP client (http/client.py).    *)
(*                                                                         *)
(* A Python str is a sequence of one-character strings; None is a value    *)
(* that is no such sequence.  A ContextVar holds one value per logical     *)
(* task: ctx[t] is task t's view of the three variables.                   *)
(***************************************************************************)
EXTENDS Integers, Sequences, FiniteSets, TLC

\* ----------------------------------------------------------------- strings

None == <<"<None>">>

\* Python truthiness of an Optional[str]: None and "" are falsy.
Truthy(x) == x # None /\ x # <<>>

\* Python `a or b`.
Or(a, b) == IF Truthy(a) THEN a ELSE b

\* Python s[:n].
Take(s, n) == IF Len(s) <= n THEN s ELSE SubSeq(s, 1, n)

StartsWith(s, p) == Len(p) <= Len(s) /\ SubSeq(s, 1, Len(p)) = p

EndsWith(s, p) == Len(p) <= Len(s) /\ SubSeq(s, Len(s) - Len(p) + 1, Len(s)) = p

\* str.split(sep) for a one-character sep: always at least one part.
RECURSIVE SplitFrom(_, _, _, _)
SplitFrom(s, sep, i, cur) ==
    IF i > Len(s) THEN <<cur>>
    ELSE IF s[i] = sep THEN <<cur>> \o SplitFrom(s, sep, i + 1, <<>>)
    ELSE SplitFrom(s, sep, i + 1, Append(cur, s[i]))

Split(s, sep) == SplitFrom(s, sep, 1, <<>>)

\* A join that keeps only the last part.
JoinLast(parts, sep) == IF Len(parts) = 0 THEN <<>> ELSE parts[Len(parts)]

\* sep.join(parts).
RECURSIVE Join(_, _)
Join(parts, sep) ==
    IF Len(parts) = 0 THEN <<>>
    ELSE IF Len(parts) = 1 THEN parts[1]
    ELSE parts[1] \o <<sep>> \o Join(Tail(parts), sep)

HexDigits == <<"0", "1", "2", "3", "4", "5", "6", "7", "8", "9",
               "a", "b", "c", "d", "e", "f">>

HexChars == {HexDigits[i] : i \in 1..16} \cup {"A", "B", "C", "D", "E", "F"}

DigitValue(c) ==
    IF c \in {"A", "B", "C", "D", "E", "F"}
    THEN CHOOSE v \in 10..15 : HexDigits[v + 1] =
             (CASE c = "A" -> "a" [] c = "B" -> "b" [] c = "C" -> "c"
                [] c = "D" -> "d" [] c = "E" -> "e" [] OTHER -> "f")
    ELSE CHOOSE v \in 0..15 : HexDigits[v + 1] = c

\* format(n, "x") for n >= 0: lowercase, no padding.
RECURSIVE Hex(_)
Hex(n) == IF n < 16 THEN <<HexDigits[n + 1]>>
          ELSE Hex(n \div 16) \o <<HexDigits[(n % 16) + 1]>>

\* str(n) for n >= 0.
RECURSIVE Dec(_)
Dec(n) == IF n < 10 THEN <<HexDigits[n + 1]>>
          ELSE Dec(n \div 10) \o <<HexDigits[(n % 10) + 1]>>

\* The digits of an int(s, 16) literal after sign and prefix: hex digits,
\* single underscores only between digits (one may follow the prefix).
DigitsOk(s, afterPrefix) ==
    /\ Len(s) > 0
    /\ \A i \in 1..Len(s) : s[i] \in HexChars \cup {"_"}
    /\ s[Len(s)] # "_"
    /\ (s[1] = "_" => afterPrefix)
    /\ \A i \in 1..(Len(s) - 1) : ~(s[i] = "_" /\ s[i + 1] = "_")

Unsigned(s) == IF Len(s) > 0 /\ s[1] \in {"+", "-"} THEN Tail(s) ELSE s

HasPrefix0x(s) == Len(s) >= 2 /\ s[1] = "0" /\ s[2] \in {"x", "X"}

\* str.strip() of blanks, as int() does to its argument first.
RECURSIVE Strip(_)
Strip(s) ==
    IF Len(s) > 0 /\ s[1] = " " THEN Strip(Tail(s))
    ELSE IF Len(s) > 0 /\ s[Len(s)] = " " THEN Strip(SubSeq(s, 1, Len(s) - 1))
    ELSE s

\* Whether int(s, 16) returns (TRUE) or raises ValueError (FALSE).
IsHexInt(s) ==
    LET u == Unsigned(Strip(s))
    IN  IF HasPrefix0x(u) /\ DigitsOk(SubSeq(u, 3, Len(u)), TRUE) THEN TRUE
        ELSE DigitsOk(u, FALSE)

RECURSIVE HexValue(_, _)
HexValue(s, acc) ==
    IF Len(s) = 0 THEN acc
    ELSE IF s[1] = "_" THEN HexValue(Tail(s), acc)
    ELSE HexValue(Tail(s), acc * 16 + DigitValue(s[1]))

\* int(s, 16) where it returns.
IntHex(s) ==
    LET u == Unsigned(Strip(s))
        d == IF HasPrefix0x(u) /\ DigitsOk(SubSeq(u, 3, Len(u)), TRUE)
             THEN SubSeq(u, 3, Len(u)) ELSE u
        v == HexValue(d, 0)
    IN  IF Len(Strip(s)) > 0 /\ Strip(s)[1] = "-" THEN 0 - v ELSE v

\* ------------------------------------------------------------- identifiers

\* secrets.token_hex(6): 12 lowercase hex characters.
TokenBytes == 6

TokenHex(c) == [i \in 1..(2 * TokenBytes) |-> c]

\* How many distinct outputs of the random source the model draws from.
MaxTokens == 2

\* The outputs of the random source the model draws from.
RandomTokens == {TokenHex(<<"a", "0", "f", "7">>[i]) : i \in 1..MaxTokens}

generate_trace_id(service_short, now, token) ==
    Hex(now) \o <<"-">> \o token \o <<"-">> \o service_short

generate_request_id(prefix, token) == prefix \o <<"_">> \o token

\* What a call does: it returns a value or raises an error of a type.
Returned(v) == [kind |-> "returned", value |-> v]
Raised(type) == [kind |-> "raised", type |-> type]

\* The try block of parse_trace_id: it returns the parsed dict, raises what
\* int(timestamp_hex, 16) raises, or is left without a return ("passed").
ParseTry(trace_id) ==
    LET parts == Split(trace_id, "-")
    IN  IF Len(parts) >= 3
        THEN IF IsHexInt(parts[1])
             THEN Returned([valid |-> TRUE,
                            timestamp |-> IntHex(parts[1]),
                            random |-> parts[2],
                            service_short |-> Join(SubSeq(parts, 3, Len(parts)), "-")])
             ELSE Raised("ValueError")
        ELSE [kind |-> "passed"]

\* except (ValueError, IndexError).
ParseCaught == {"ValueError", "IndexError"}

\* parse_trace_id without its except clause.
parse_trace_id_call_uncaught(trace_id) ==
    LET try == ParseTry(trace_id)
    IN  IF try.kind \in {"raised", "returned"} THEN try
        ELSE Returned([valid |-> FALSE, raw |-> trace_id])

\* A call of parse_trace_id(trace_id) for a str trace_id.
parse_trace_id_call(trace_id) ==
    LET try == ParseTry(trace_id)
    IN  IF try.kind = "raised" /\ try.type \notin ParseCaught THEN try
        ELSE IF try.kind = "returned" THEN try
        ELSE Returned([valid |-> FALSE, raw |-> trace_id])

\* What parse_trace_id(trace_id) returns.
parse_trace_id(trace_id) == parse_trace_id_call(trace_id).value

\* ------------------------------------------------------------ Context Store

\* One task's view of _trace_id_var, _request_id_var, _parent_span_id_var.
TraceContext(t, r, p) == [trace_id |-> t, request_id |-> r, parent_span_id |-> p]

\* ContextVar(..., default=None): what a context that never set anything reads.
DefaultContext == TraceContext(None, None, None)

get_trace_id(c) == c.trace_id

get_request_id(c) == c.request_id

get_parent_span_id(c) == c.parent_span_id

get_current_context(c) ==
    TraceContext(get_trace_id(c), get_request_id(c), get_parent_span_id(c))

\* set_trace_context that tests `if trace_id:` in place of `is not None`.
set_trace_context_truthy(c, trace_id, request_id, parent_span_id) ==
    LET c1 == IF Truthy(trace_id) THEN [c EXCEPT !.trace_id = trace_id] ELSE c
        c2 == IF Truthy(request_id) THEN [c1 EXCEPT !.request_id = request_id] ELSE c1
    IN  IF Truthy(parent_span_id) THEN [c2 EXCEPT !.parent_span_id = parent_span_id]
        ELSE c2

\* set_trace_context that stores every argument, None included.
set_trace_context_overwrites(c, trace_id, request_id, parent_span_id) ==
    TraceContext(trace_id, request_id, parent_span_id)

\* The calling task's context after set_trace_context(trace_id, request_id,
\* parent_span_id): an argument that is None leaves its variable alone.
set_trace_context(c, trace_id, request_id, parent_span_id) ==
    LET c1 == IF trace_id # None THEN [c EXCEPT !.trace_id = trace_id] ELSE c
        c2 == IF request_id # None THEN [c1 EXCEPT !.request_id = request_id] ELSE c1
    IN  IF parent_span_id # None THEN [c2 EXCEPT !.parent_span_id = parent_span_id]
        ELSE c2

\* clear_trace_context without its last statement.
clear_trace_context_keeps_parent(c) ==
    LET c1 == [c EXCEPT !.trace_id = None]
    IN  [c1 EXCEPT !.request_id = None]

\* The calling task's context after clear_trace_context().
clear_trace_context(c) ==
    LET c1 == [c EXCEPT !.trace_id = None]
        c2 == [c1 EXCEPT !.request_id = None]
    IN  [c2 EXCEPT !.parent_span_id = None]

\* ------------------------------------------------------------------ headers

TRACE_ID_HEADER == "X-Trace-ID"
REQUEST_ID_HEADER == "X-Request-ID"
PARENT_SPAN_ID_HEADER == "X-Parent-Span-ID"
DEPLOYMENT_ID_HEADER == "X-Deployment-ID"
RESPONSE_TIME_HEADER == "X-Response-Time"
SERVED_BY_HEADER == "X-Served-By"

HeaderNames == {TRACE_ID_HEADER, REQUEST_ID_HEADER, PARENT_SPAN_ID_HEADER,
                DEPLOYMENT_ID_HEADER, RESPONSE_TIME_HEADER, SERVED_BY_HEADER}

\* A header mapping: the value of each name, None for a name it does not hold.
NoHeaders == [n \in HeaderNames |-> None]

\* headers.get(name) / dict.get(name).
HeaderGet(headers, name) == headers[name]

\* headers[name] = value.
HeaderSet(headers, name, value) == [headers EXCEPT ![name] = value]

HeaderKeys(headers) == {n \in HeaderNames : headers[n] # None}

\* An update in which the keys the mapping already holds are kept.
DictUpdateKeepsOwn(headers, other) ==
    [n \in HeaderNames |-> IF headers[n] # None THEN headers[n] ELSE other[n]]

\* dict.update(other): other's keys win.
DictUpdate(headers, other) ==
    [n \in HeaderNames |-> IF other[n] # None THEN other[n] ELSE headers[n]]

\* get_trace_headers that forwards the store's own parent_span_id.
get_trace_headers_own_parent(c, env) ==
    LET h0 == NoHeaders
        trace_id == get_trace_id(c)
        h1 == IF Truthy(trace_id) THEN HeaderSet(h0, TRACE_ID_HEADER, trace_id) ELSE h0
        parent == get_parent_span_id(c)
        h2 == IF Truthy(parent)
              THEN HeaderSet(h1, PARENT_SPAN_ID_HEADER, parent) ELSE h1
        deployment_id == env.DEPLOYMENT_ID
    IN  IF Truthy(deployment_id)
        THEN HeaderSet(h2, DEPLOYMENT_ID_HEADER, deployment_id) ELSE h2

\* get_trace_headers() in a task whose context is c, with os.environ = env.
get_trace_headers(c, env) ==
    LET h0 == NoHeaders
        trace_id == get_trace_id(c)
        h1 == IF Truthy(trace_id) THEN HeaderSet(h0, TRACE_ID_HEADER, trace_id) ELSE h0
        request_id == get_request_id(c)
        h2 == IF Truthy(request_id)
              THEN HeaderSet(h1, PARENT_SPAN_ID_HEADER, request_id) ELSE h1
        deployment_id == env.DEPLOYMENT_ID
    IN  IF Truthy(deployment_id)
        THEN HeaderSet(h2, DEPLOYMENT_ID_HEADER, deployment_id) ELSE h2

\* TracedHttpClient._merge_headers(headers): headers is None or a mapping.
_merge_headers(c, env, headers) ==
    LET trace_headers == get_trace_headers(c, env)
    IN  IF headers # None /\ HeaderKeys(headers) # {}
        THEN DictUpdate(trace_headers, headers) ELSE trace_headers

\* ------------------------------------------------------------ configuration

\* BuildInfo.git_commit: os.getenv("GIT_COMMIT", "unknown").
git_commit(env) == IF env.GIT_COMMIT = None THEN <<"u", "n", "k", "n", "o", "w", "n">>
                   ELSE env.GIT_COMMIT

\* BuildInfo.short_commit.
short_commit(env) ==
    IF Truthy(git_commit(env)) /\ git_commit(env) # <<"u", "n", "k", "n", "o", "w", "n">>
    THEN Take(git_commit(env), 7)
    ELSE <<"u", "n", "k", "n", "o", "w", "n">>

\* service_name in place of service_name[:4].
ServiceShortWholeName(k) == Or(k.service_short, k.service_name)

\* TracingMiddleware.__init__: self.service_short.
ServiceShort(k) == Or(k.service_short, Take(k.service_name, 4))

DefaultSkipPaths == <<"/health", "/", "/favicon.ico">>

\* TracingMiddleware.__init__: self.skip_paths, a set of paths.
SkipPaths(k) ==
    LET list == Or(k.skip_paths, DefaultSkipPaths)
    IN  {list[i] : i \in 1..Len(list)}

\* The constructor arguments and the environment of the deployments the model
\* draws from (service_short and skip_paths: None when the argument is omitted).
Configs ==
    { [service_name |-> <<"a", "u", "t", "h", "-", "s", "v", "c">>,
       service_short |-> None, skip_paths |-> None, log_requests |-> TRUE,
       env |-> [DEPLOYMENT_ID |-> None, GIT_COMMIT |-> None]],
      [service_name |-> <<"a", "b">>,
       service_short |-> <<>>, skip_paths |-> <<>>, log_requests |-> TRUE,
       env |-> [DEPLOYMENT_ID |-> <<>>,
                GIT_COMMIT |-> <<"u", "n", "k", "n", "o", "w", "n">>]],
      [service_name |-> <<"a", "u", "t", "h", "-", "s", "v", "c">>,
       service_short |-> <<"t", "s">>, skip_paths |-> <<"/custom">>,
       log_requests |-> TRUE,
       env |-> [DEPLOYMENT_ID |-> <<"b", "l", "u", "e">>,
                GIT_COMMIT |-> <<"0", "1", "2", "3", "4", "5", "6", "7", "8">>]],
      [service_name |-> <<"a", "u", "t", "h", "-", "s", "v", "c">>,
       service_short |-> <<"t", "-", "s">>, skip_paths |-> None,
       log_requests |-> FALSE,
       env |-> [DEPLOYMENT_ID |-> <<"b", "l", "u", "e">>, GIT_COMMIT |-> <<>>]] }

\* ------------------------------------------------------------------- inputs

\* request.url.path of the requests the model sends.
Paths == {"/health", "/custom"}

\* A header mapping holding trace, request and parent headers (None: absent).
Inbound(t, r, p) ==
    [n \in HeaderNames |-> CASE n = TRACE_ID_HEADER -> t
                             [] n = REQUEST_ID_HEADER -> r
                             [] n = PARENT_SPAN_ID_HEADER -> p
                             [] OTHER -> None]

UpstreamTrace == <<"1", "f", "-", "c", "0", "-", "u", "p">>
UnparseableTrace == <<"u", "-", "t", "-", "1">>
ShortTrace == <<"z", "z">>
UpstreamSpan == <<"u", "p", "_", "1">>
UpstreamRequest == <<"u", "p", "_", "9">>

\* The headers of the requests that reach the middleware from outside.
ExternalHeaders ==
    { Inbound(None, None, None),
      Inbound(<<>>, None, None),
      Inbound(UpstreamTrace, UpstreamRequest, UpstreamSpan),
      Inbound(UnparseableTrace, None, None),
      Inbound(ShortTrace, UpstreamRequest, None),
      Inbound(None, None, UpstreamSpan) }

\* int(time.time()) at the requests the model sends.
ClockReadings == {26}

\* (time.time() - start_time) * 1000, in hundredths of a millisecond.
Durations == {1234}

\* f"{duration_ms:.2f}ms".
FormatMs(d) ==
    Dec(d \div 100) \o <<".">> \o Dec((d % 100) \div 10) \o Dec(d % 10) \o <<"m", "s">>

\* What handlers raise: subclasses of Exception.
HandlerErrors == {[type |-> "ValueError", msg |-> "Test error", is_exception |-> TRUE]}

\* What a cancelled await raises: asyncio.CancelledError, a BaseException that
\* is no Exception.
CancelledError == [type |-> "CancelledError", msg |-> "", is_exception |-> FALSE]

NoError == [type |-> "", msg |-> "", is_exception |-> FALSE]

DownstreamTrace == <<"d", "n">>
Green == <<"g", "r", "e", "e", "n">>

\* The headers of the responses handlers return: none of the tracing headers,
\* or headers a handler copied from a downstream response.
HandlerResponseHeaders ==
    { NoHeaders,
      [NoHeaders EXCEPT ![TRACE_ID_HEADER] = DownstreamTrace,
                        ![DEPLOYMENT_ID_HEADER] = Green] }

HandlerTrace == <<"h", "t">>
HandlerRequest == <<"h", "r">>
HandlerSpan == <<"h", "p">>

\* The arguments of the set_trace_context calls of code outside the middleware.
UserSetArgs == { <<HandlerTrace, HandlerRequest, None>>, <<None, None, HandlerSpan>> }

\* What a caller passes as headers= to TracedHttpClient.request: nothing, or a
\* mapping with a key the mapper may set too and a key it never sets.
CallerHeaders ==
    { None,
      [NoHeaders EXCEPT ![TRACE_ID_HEADER] = HandlerTrace,
                        ![REQUEST_ID_HEADER] = HandlerRequest] }

\* -------------------------------------------------------------------- state

\* Logical tasks.  A and B run requests through the middleware: A serves the
\* requests that arrive from outside, B those that code of this program sends
\* with TracedHttpClient.  C is a task that running code starts
\* (asyncio.create_task): it begins with a copy of its creator's context.
ReqTasks == {"A", "B"}
Tasks == {"A", "B", "C"}

VARIABLES
    cfg,    \* the middleware's constructor arguments and the environment
    pc,     \* pc[t]: "unborn", "idle" (code outside the middleware runs in t),
            \* "dispatched" (dispatch awaits call_next: the handler runs), "done"
    ctx,    \* ctx[t]: task t's view of the three context variables
    rq,     \* rq[t]: the request task t handles: the locals of dispatch, the
            \* random source's output for its request id (token), what has
            \* happened to it so far (hist), the headers of the response
            \* call_next returned (returned) or the error it raised (thrown),
            \* and what dispatch returned or raised (result)
    own,    \* own[t]: per field, what task t itself last wrote with
            \* set_trace_context or clear_trace_context (Unwritten: nothing yet)
    born,   \* born[t]: the context task t started with
    ids,    \* the identifier code outside the middleware last made with
            \* generate_trace_id or received, and what parse_trace_id made of it
    http,   \* one TracedHttpClient shared by the tasks, and how it was used
    health, \* the health checkers of the process, the apps with health routes
            \* and the run of run_checks in progress
    startup \* one StartupChecker and its run of run_all_checks

vars == <<cfg, pc, ctx, rq, own, born, ids, http, health, startup>>

\* One thing that happened to a request, with the context the task's getters
\* (and so the log formatter) read at that moment.
Ev(name, c) == [ev |-> name, ctx |-> c]

NoResult == [kind |-> "none", headers |-> NoHeaders, exc |-> NoError]

NoRequest ==
    [origin |-> "none", sender |-> DefaultContext, supplied |-> None,
     headers |-> NoHeaders, path |-> "",
     trace_id |-> None, request_id |-> None, parent_span_id |-> None,
     token |-> <<>>, should_log |-> FALSE, hist |-> <<>>, returned |-> NoHeaders,
     thrown |-> NoError, result |-> NoResult]

\* No call of parse_trace_id yet, and no identifier held.
NoCall == [kind |-> "none"]

NoIds == [origin |-> "none", service_short |-> <<>>, trace_id |-> <<>>, call |-> NoCall]

\* Code outside the middleware is running in task t: before a request, or as
\* the handler that dispatch awaits.
Running(t) == pc[t] \in {"idle", "dispatched"}

\* Handler code is running in task t: the handler itself, or a task it started.
InHandler(t) == pc[t] = "dispatched" \/ (t \notin ReqTasks /\ pc[t] = "idle")

\* A module-level global in place of the ContextVars: one value for all tasks.
ContextVarSetShared(store, t, c) == [u \in DOMAIN store |-> c]

\* A store in which the tasks started by handlers share the Context object of
\* the writing task instead of holding a copy of their own.
ContextVarSetDescendants(store, t, c) ==
    [u \in Tasks |-> IF u = t \/ u \notin ReqTasks THEN c ELSE store[u]]

\* ContextVar.set in task t: the three variables as task t sees them become c;
\* no other task's view changes.
ContextVarSet(store, t, c) == [store EXCEPT ![t] = c]

\* A new task that starts with an empty context.
CopyContextFresh(c) == DefaultContext

\* asyncio.create_task / a new thread: the context a new task starts with is
\* a copy of its creator's.
CopyContext(c) == c

\* ---------------------------------------------------- TracingMiddleware.dispatch

\* The inbound header never read: a trace id generated for every request.
InboundTraceIdIgnored(headers, generated) == generated

\* The inbound header reused only when parse_trace_id accepts it.
InboundTraceIdValidated(headers, generated) ==
    LET v == HeaderGet(headers, TRACE_ID_HEADER)
    IN  IF Truthy(v) /\ parse_trace_id(v).valid THEN v ELSE generated

\* trace_id = request.headers.get(TRACE_ID_HEADER) or generate_trace_id(...).
InboundTraceId(headers, generated) == Or(HeaderGet(headers, TRACE_ID_HEADER), generated)

\* An inbound X-Request-ID honoured.
NewRequestIdFromInbound(headers, service_short, token) ==
    Or(HeaderGet(headers, REQUEST_ID_HEADER), generate_request_id(service_short, token))

\* request_id = generate_request_id(self.service_short).
NewRequestId(headers, service_short, token) == generate_request_id(service_short, token)

\* The parent taken from the inbound X-Request-ID.
InboundParentSpanIdFromRequestId(headers) == HeaderGet(headers, REQUEST_ID_HEADER)

\* parent_span_id = request.headers.get(PARENT_SPAN_ID_HEADER).
InboundParentSpanId(headers) == HeaderGet(headers, PARENT_SPAN_ID_HEADER)

\* should_log without the skip set.
ShouldLogAnyPath(k, path) == k.log_requests

\* should_log = self.log_requests and request.url.path not in self.skip_paths.
ShouldLog(k, path) == k.log_requests /\ path \notin SkipPaths(k)

\* response.headers.setdefault(...) in place of the assignments: a header the
\* handler's response already holds is kept.
InjectHeadersSetDefault(headers, trace_id, request_id, d, k) ==
    LET add(h, n, v) == IF h[n] = None THEN HeaderSet(h, n, v) ELSE h
        h1 == add(headers, TRACE_ID_HEADER, trace_id)
        h2 == add(h1, REQUEST_ID_HEADER, request_id)
        h3 == add(h2, RESPONSE_TIME_HEADER, FormatMs(d))
        h4 == add(h3, SERVED_BY_HEADER,
                  k.service_name \o <<"-">> \o short_commit(k.env))
        deployment_id == k.env.DEPLOYMENT_ID
    IN  IF Truthy(deployment_id)
        THEN add(h4, DEPLOYMENT_ID_HEADER, deployment_id) ELSE h4

\* The response headers after dispatch has added its own.
InjectHeaders(headers, trace_id, request_id, d, k) ==
    LET h1 == HeaderSet(headers, TRACE_ID_HEADER, trace_id)
        h2 == HeaderSet(h1, REQUEST_ID_HEADER, request_id)
        h3 == HeaderSet(h2, RESPONSE_TIME_HEADER, FormatMs(d))
        h4 == HeaderSet(h3, SERVED_BY_HEADER,
                        k.service_name \o <<"-">> \o short_commit(k.env))
        deployment_id == k.env.DEPLOYMENT_ID
    IN  IF Truthy(deployment_id)
        THEN HeaderSet(h4, DEPLOYMENT_ID_HEADER, deployment_id) ELSE h4

\* `except BaseException as e` (or a bare `except:`).
CaughtAny(e) == TRUE

\* `except Exception as e`: the errors the except clause takes.
Caught(e) == e.is_exception

\* `raise RuntimeError(str(e))` in place of the bare `raise`.
ReraisedWrapped(e) == [type |-> "RuntimeError", msg |-> e.msg, is_exception |-> TRUE]

\* `raise` in the except clause: what leaves dispatch.
Reraised(e) == e

\* `finally: clear_trace_context()` when the try block returned the response.
FinallyOnReturn(c) == clear_trace_context(c)

\* clear_trace_context() at the end of the except clause instead of in finally.
CleanupInExcept(c, e) == IF e.is_exception THEN clear_trace_context(c) ELSE c

\* `finally: clear_trace_context()` when error e is leaving the try statement.
FinallyOnError(c, e) == clear_trace_context(c)

\* START to DISPATCHED: dispatch up to `await call_next(request)`.
Dispatch(t, origin, sender, supplied, headers, path, now, tok1, tok2) ==
    LET service_short == ServiceShort(cfg)
        trace_id == InboundTraceId(headers,
                                   generate_trace_id(service_short, now, tok1))
        request_id == NewRequestId(headers, service_short, tok2)
        parent_span_id == InboundParentSpanId(headers)
        c1 == set_trace_context(ctx[t], trace_id, request_id, parent_span_id)
        should_log == ShouldLog(cfg, path)
    IN  /\ pc[t] = "idle"
        /\ ctx' = ContextVarSet(ctx, t, c1)
        /\ rq' = [rq EXCEPT ![t] =
                    [origin |-> origin, sender |-> sender, supplied |-> supplied,
                     headers |-> headers,
                     path |-> path, trace_id |-> trace_id,
                     request_id |-> request_id, parent_span_id |-> parent_span_id,
                     token |-> tok2, should_log |-> should_log,
                     hist |-> <<Ev("start", ctx[t]), Ev("context_bound", c1)>>
                              \o (IF should_log THEN <<Ev("log_started", c1)>> ELSE <<>>)
                              \o <<Ev("dispatched", c1)>>,
                     returned |-> NoHeaders, thrown |-> NoError,
                     result |-> NoResult]]
        /\ pc' = [pc EXCEPT ![t] = "dispatched"]
        /\ UNCHANGED <<startup, health, http, ids, cfg, own, born>>

\* A request from outside, with headers among hs, reaches the middleware in
\* task A.
Receive(hs) ==
    \E headers \in hs, path \in Paths, now \in ClockReadings,
       tok1 \in RandomTokens, tok2 \in RandomTokens :
        Dispatch("A", "external", DefaultContext, None, headers, path, now, tok1, tok2)

\* Handler code in task u sends a request with TracedHttpClient.request; the
\* middleware receives it in task B.
ReceiveHop ==
    \E u \in Tasks \ {"B"}, supplied \in CallerHeaders, path \in Paths,
       now \in ClockReadings, tok1 \in RandomTokens, tok2 \in RandomTokens :
        /\ InHandler(u)
        /\ Dispatch("B", "hop", ctx[u], supplied,
                    _merge_headers(ctx[u], cfg.env, supplied), path, now, tok1, tok2)

\* str(e).
Str(e) == e.msg

\* The failure line written only for the requests whose start was logged.
FailureLoggedIfLogging(should_log) == should_log

\* Whether the except clause calls logger.exception: it does not look at
\* should_log.
FailureLogged(should_log) == TRUE

\* The failure line written after the context was cleared.
FailedLineAfterCleanup(c, e) ==
    [ev |-> "log_failed", ctx |-> clear_trace_context(c), error |-> Str(e)]

\* The "Request failed: ... error={str(e)}" line of logger.exception, written
\* while the task's context is c.
FailedLine(c, e) == [ev |-> "log_failed", ctx |-> c, error |-> Str(e)]

\* The header assignments raising for a response that already carries a
\* deployment header.
InjectionErrorOnOwnHeader(headers) ==
    IF HeaderGet(headers, DEPLOYMENT_ID_HEADER) # None
    THEN [type |-> "KeyError", msg |-> DEPLOYMENT_ID_HEADER, is_exception |-> TRUE]
    ELSE NoError

\* What the statements between the completion log and `return response`
\* raise: they assign strings to keys of the response's header mapping and
\* read the environment, with no await and no raise among them.
InjectionError(headers) == NoError

\* COMPLETED and CONTEXT_CLEARED: call_next returned a response.  An error of
\* the statements after the completion log would be taken by the except
\* clause like an error of the handler.
HandlerReturn(t, headers, d) ==
    LET r == rq[t]
        c == ctx[t]
        out == InjectHeaders(headers, r.trace_id, r.request_id, d, cfg)
        e == InjectionError(headers)
        c2 == IF e = NoError THEN FinallyOnReturn(c) ELSE FinallyOnError(c, e)
        completed == <<Ev("handler_returned", c)>>
                     \o (IF r.should_log THEN <<Ev("log_completed", c)>> ELSE <<>>)
    IN  /\ pc[t] = "dispatched"
        /\ ctx' = ContextVarSet(ctx, t, c2)
        /\ rq' = [rq EXCEPT ![t].hist =
                        IF e = NoError
                        THEN r.hist \o completed
                             \o <<Ev("headers_injected", c),
                                  Ev("context_cleared", c2),
                                  Ev("returned", c2)>>
                        ELSE r.hist \o completed
                             \o (IF Caught(e) /\ FailureLogged(r.should_log)
                                 THEN <<FailedLine(c, e)>> ELSE <<>>)
                             \o <<Ev("context_cleared", c2), Ev("raised", c2)>>,
                    ![t].returned = headers,
                    ![t].thrown = e,
                    ![t].result =
                        IF e = NoError
                        THEN [kind |-> "response", headers |-> out,
                              exc |-> NoError]
                        ELSE [kind |-> "raised", headers |-> NoHeaders,
                              exc |-> IF Caught(e) THEN Reraised(e) ELSE e]]
        /\ pc' = [pc EXCEPT ![t] = "done"]
        /\ UNCHANGED <<startup, health, http, ids, cfg, own, born>>

\* call_next raised e: FAILED when the except clause takes e, CONTEXT_CLEARED
\* either way, and the error leaves dispatch.
Propagate(t, e) ==
    LET r == rq[t]
        c == ctx[t]
        c2 == FinallyOnError(c, e)
    IN  /\ pc[t] = "dispatched"
        /\ ctx' = ContextVarSet(ctx, t, c2)
        /\ rq' = [rq EXCEPT ![t].hist =
                        r.hist \o <<Ev("handler_raised", c)>>
                        \o (IF Caught(e) /\ FailureLogged(r.should_log)
                            THEN <<FailedLine(c, e)>> ELSE <<>>)
                        \o <<Ev("context_cleared", c2), Ev("raised", c2)>>,
                    ![t].thrown = e,
                    ![t].result = [kind |-> "raised", headers |-> NoHeaders,
                                   exc |-> IF Caught(e) THEN Reraised(e) ELSE e]]
        /\ pc' = [pc EXCEPT ![t] = "done"]
        /\ UNCHANGED <<startup, health, http, ids, cfg, own, born>>

\* The handler raises an Exception.
HandlerRaise(t) == \E e \in HandlerErrors : Propagate(t, e)

\* The request's task is cancelled while dispatch awaits call_next.
HandlerCancel(t) == Propagate(t, CancelledError)

\* ------------------------------------------------- code outside the middleware

Unwritten == <<"<unwritten>">>

NothingWritten == TraceContext(Unwritten, Unwritten, Unwritten)

\* The record of a task's own writes after its set_trace_context(*a).
OwnAfterSet(o, a) ==
    TraceContext(IF a[1] # None THEN a[1] ELSE o.trace_id,
                 IF a[2] # None THEN a[2] ELSE o.request_id,
                 IF a[3] # None THEN a[3] ELSE o.parent_span_id)

\* set_trace_context(*a) called in task t.
SetTraceContext(t, a) ==
    /\ Running(t)
    /\ ctx' = ContextVarSet(ctx, t, set_trace_context(ctx[t], a[1], a[2], a[3]))
    /\ UNCHANGED <<startup, health, http, ids, cfg, pc, rq, born>>

\* clear_trace_context() called in task t.
ClearTraceContext(t) ==
    /\ Running(t)
    /\ ctx' = ContextVarSet(ctx, t, clear_trace_context(ctx[t]))
    /\ UNCHANGED <<startup, health, http, ids, cfg, pc, rq, born>>

\* Code running in task t starts task u.
Spawn(t, u) ==
    /\ Running(t)
    /\ u \notin ReqTasks
    /\ pc[u] = "unborn"
    /\ pc' = [pc EXCEPT ![u] = "idle"]
    /\ ctx' = ContextVarSet(ctx, u, CopyContext(ctx[t]))
    /\ born' = [born EXCEPT ![u] = ctx[t]]
    /\ UNCHANGED <<startup, health, http, ids, cfg, rq, own>>

\* Task u ends.
TaskExit(u) ==
    /\ u \notin ReqTasks
    /\ pc[u] = "idle"
    /\ pc' = [pc EXCEPT ![u] = "unborn"]
    /\ ctx' = [ctx EXCEPT ![u] = DefaultContext]
    /\ own' = [own EXCEPT ![u] = NothingWritten]
    /\ born' = [born EXCEPT ![u] = DefaultContext]
    /\ UNCHANGED <<startup, health, http, ids, cfg, rq>>

\* The handler, or code that runs in the request's task before the request,
\* calls set_trace_context or clear_trace_context.
UserSet(t, a) == SetTraceContext(t, a) /\ UNCHANGED own

UserClear(t) == ClearTraceContext(t) /\ UNCHANGED own

\* The same calls, with the caller's own writes recorded.
TaskSet(t, a) ==
    /\ SetTraceContext(t, a)
    /\ own' = [own EXCEPT ![t] = OwnAfterSet(own[t], a)]

TaskClear(t) ==
    /\ ClearTraceContext(t)
    /\ own' = [own EXCEPT ![t] = TraceContext(None, None, None)]

\* ---------------------------------------------------------- TracedHttpClient

\* The tracing variables, which the collaborators below leave alone.
tracing == <<ids, cfg, pc, ctx, rq, own, born>>

\* self._client is None.
NoClient == 0

\* The most httpx.AsyncClient objects the wrapper creates in a run.
MaxClients == 3

\* TracedHttpClient.__init__: no client yet.  Besides self._client the record
\* keeps the number of httpx.AsyncClient objects created so far (they are
\* numbered 1, 2, ...), the clients whose aclose() was called, the clients
\* whose close() has returned, what _get_client created and returned since a
\* close() last returned, where each task using the wrapper is, and the last
\* operation with the wrapper's fields before it.
NewWrapper ==
    [client |-> NoClient, made |-> 0, aclosed |-> {}, released |-> {},
     created |-> {}, returned |-> {},
     at |-> [t \in ReqTasks |-> "out"],
     closing |-> [t \in ReqTasks |-> NoClient],
     last |-> [op |-> "init", before |-> NoClient, made |-> 0]]

\* _get_client: self._client after the call, the number of clients created,
\* and the client returned.  No await lies between the test and the
\* assignment.
_get_client(w) ==
    IF w.client = NoClient
    THEN [client |-> w.made + 1, made |-> w.made + 1, value |-> w.made + 1]
    ELSE [client |-> w.client, made |-> w.made, value |-> w.client]

\* What an operation records of the wrapper as it found it.
Found(name, w) == [op |-> name, before |-> w.client, made |-> w.made]

\* __aenter__ in task t: returns self.
AEnter(t) ==
    /\ http.at[t] = "out"
    /\ http' = [http EXCEPT !.at[t] = "entered", !.last = Found("aenter", http)]
    /\ UNCHANGED <<startup, health>>
    /\ UNCHANGED tracing

\* request (get, post, ...) in task t, up to `await client.request(...)`.
Request(t) ==
    LET got == _get_client(http)
    IN  /\ http.at[t] \in {"out", "entered"}
        /\ got.made <= MaxClients
        /\ http' = [http EXCEPT !.client = got.client, !.made = got.made,
                                !.created = @ \cup ((1..got.made) \ (1..http.made)),
                                !.returned = @ \cup {got.value},
                                !.last = Found("request", http)]
        /\ UNCHANGED <<startup, health>>
        /\ UNCHANGED tracing

\* close() in task t, or __aexit__ when t leaves `async with`: with no client
\* it returns at once; with one it calls aclose() and is suspended in the
\* await.
Close(t) ==
    /\ http.at[t] \in {"out", "entered"}
    /\ http' =
         IF http.client = NoClient
         THEN [http EXCEPT !.at[t] = "out", !.created = {}, !.returned = {},
                           !.last = Found("close_none", http)]
         ELSE [http EXCEPT !.at[t] = "closing", !.closing[t] = http.client,
                           !.aclosed = @ \cup {http.client},
                           !.last = Found("close", http)]
    /\ UNCHANGED <<startup, health>>
    /\ UNCHANGED tracing

\* aclose() is over: close() in task t goes on with `self._client = None` and
\* returns.
CloseResume(t) ==
    /\ http.at[t] = "closing"
    /\ http' = [http EXCEPT !.at[t] = "out", !.closing[t] = NoClient,
                            !.client = NoClient,
                            !.released = @ \cup {http.closing[t]},
                            !.created = {}, !.returned = {},
                            !.last = Found("closed", http)]
    /\ UNCHANGED <<startup, health>>
    /\ UNCHANGED tracing

\* ---------------------------------------------------------------- diagnostics

\* A dict as the list of its items in insertion order.
ItemKeys(d) == {d[i].name : i \in 1..Len(d)}

\* d[k] = v: a new key goes to the end, an old key keeps its place.
ItemSet(d, k, v) ==
    IF k \in ItemKeys(d)
    THEN [i \in 1..Len(d) |->
            IF d[i].name = k THEN [name |-> k, value |-> v] ELSE d[i]]
    ELSE Append(d, [name |-> k, value |-> v])

\* The check functions of the services: def or async def.
CheckFuncs ==
    { [fn |-> "check_disk", is_async |-> FALSE],
      [fn |-> "check_database", is_async |-> TRUE] }

CheckNames == {"database", "redis"}

\* asyncio.iscoroutinefunction(check_func).
iscoroutinefunction(f) == f.is_async

\* What one call of a check function does: it returns a truthy or a falsy
\* value, raises an Exception, or does not finish.
Outcomes == {"truthy", "falsy", "raises", "hangs"}

\* The call of check function f in the try block of both checkers, when the
\* function does o: an async function is awaited under asyncio.wait_for,
\* which raises TimeoutError when it is not done in time; a plain function is
\* called directly, and a call that does not finish never comes back.
CheckCall(f, o) ==
    CASE o = "truthy" -> Returned(TRUE)
      [] o = "falsy" -> Returned(FALSE)
      [] o = "raises" -> Raised("Exception")
      [] o = "hangs" -> IF iscoroutinefunction(f) THEN Raised("TimeoutError")
                        ELSE [kind |-> "blocked"]

\* ---- HealthChecker

ServiceNames == {"user-auth", "orders"}
Apps == {"app1", "app2"}

\* service_name not in _health_checkers.
NoChecker == 0

\* The most HealthChecker objects created in a run.
MaxCheckers == 3

\* No run_checks call yet.  Besides the locals of run_checks a run keeps the
\* checks it called with what each did, and the checks that were registered
\* when it returned.
NoRun ==
    [state |-> "idle", app |-> "", checker |-> NoChecker, i |-> 0,
     results |-> <<>>, overall_healthy |-> TRUE, calls |-> <<>>,
     outcomes |-> <<>>, status |-> "", registered |-> <<>>]

\* The process before any health checker is asked for: _health_checkers is
\* empty.  registry is _health_checkers, the HealthChecker objects are
\* numbered 1, 2, ... and checks[c] is the _checks dict of object c; routes
\* is the checker each app's /health route closes over, with the service
\* name and the checks the app was set up with; given[n] are the objects get_health_checker
\* has returned for name n, and ever[n] the checks registered under n.
NoHealth ==
    [registry |-> [n \in ServiceNames |-> NoChecker], made |-> 0,
     checks |-> [c \in 1..MaxCheckers |-> <<>>],
     routes |-> [a \in Apps |-> [checker |-> NoChecker, service_name |-> "",
                                 checks |-> <<>>]],
     given |-> [n \in ServiceNames |-> {}],
     ever |-> [n \in ServiceNames |-> <<>>],
     run |-> NoRun]

\* get_health_checker that makes a checker at every call.
get_health_checker_always_new(h, service_name) ==
    [registry |-> [h.registry EXCEPT ![service_name] = h.made + 1],
     made |-> h.made + 1, value |-> h.made + 1]

\* get_health_checker(service_name): _health_checkers after the call, the
\* number of checkers created, and the checker returned.
get_health_checker(h, service_name) ==
    IF h.registry[service_name] = NoChecker
    THEN [registry |-> [h.registry EXCEPT ![service_name] = h.made + 1],
          made |-> h.made + 1, value |-> h.made + 1]
    ELSE [registry |-> h.registry, made |-> h.made,
          value |-> h.registry[service_name]]

\* register_check(name, check_func) on a _checks dict.
register_check(d, name, check_func) == ItemSet(d, name, check_func)

\* `for name, check_func in checks.items(): register_check(name, check_func)`.
RECURSIVE RegisterAll(_, _)
RegisterAll(d, checks) ==
    IF checks = <<>> THEN d
    ELSE RegisterAll(register_check(d, Head(checks).name, Head(checks).value),
                     Tail(checks))

\* The `checks` arguments of setup_health_routes: omitted (None), an empty
\* dict, one check, two checks.
CheckDicts ==
    { [is_none |-> TRUE, items |-> <<>>],
      [is_none |-> FALSE, items |-> <<>>],
      [is_none |-> FALSE,
       items |-> <<[name |-> "database",
                    value |-> [fn |-> "check_disk", is_async |-> FALSE]]>>],
      [is_none |-> FALSE,
       items |-> <<[name |-> "redis",
                    value |-> [fn |-> "check_disk", is_async |-> FALSE]],
                   [name |-> "database",
                    value |-> [fn |-> "check_database", is_async |-> TRUE]]>>] }

\* No run_checks call is in progress.
NotRunning == health.run.state # "running"

\* setup_health_routes(app, service_name, checks), while no health request is
\* being served.
SetupHealthRoutes(app, service_name, checks) ==
    LET got == get_health_checker(health, service_name)
        items == IF ~checks.is_none /\ checks.items # <<>> THEN checks.items
                 ELSE <<>>
    IN  /\ NotRunning
        /\ health.routes[app].checker = NoChecker
        /\ got.made <= MaxCheckers
        /\ health' =
             [health EXCEPT
                !.registry = got.registry,
                !.made = got.made,
                !.checks[got.value] = RegisterAll(@, items),
                !.routes[app] = [checker |-> got.value,
                                 service_name |-> service_name,
                                 checks |-> items],
                !.given[service_name] = @ \cup {got.value},
                !.ever[service_name] = RegisterAll(@, items)]
        /\ UNCHANGED <<startup, http>>
        /\ UNCHANGED tracing

\* get_health_checker(service_name).register_check(name, check_func), while
\* no health request is being served.
RegisterCheck(service_name, name, check_func) ==
    LET got == get_health_checker(health, service_name)
    IN  /\ NotRunning
        /\ got.made <= MaxCheckers
        /\ health' =
             [health EXCEPT
                !.registry = got.registry,
                !.made = got.made,
                !.checks[got.value] = register_check(@, name, check_func),
                !.given[service_name] = @ \cup {got.value},
                !.ever[service_name] = register_check(@, name, check_func)]
        /\ UNCHANGED <<startup, http>>
        /\ UNCHANGED tracing

\* GET /health on app: the route calls run_checks of the checker it closed
\* over, which starts with no results.
HealthRequest(app) ==
    /\ health.run.state \in {"idle", "returned"}
    /\ health.routes[app].checker # NoChecker
    /\ health' = [health EXCEPT !.run =
                     [NoRun EXCEPT !.state = "running", !.app = app,
                                   !.checker = health.routes[app].checker,
                                   !.i = 1]]
    /\ UNCHANGED <<startup, http>>
    /\ UNCHANGED tracing

\* The except clauses of run_checks catching asyncio.TimeoutError only.
HealthTryTimeoutOnly(call) ==
    CASE call.kind = "returned" ->
           [kind |-> "entry", healthy |-> call.value,
            status |-> IF call.value THEN "healthy" ELSE "unhealthy"]
      [] call.kind = "raised" /\ call.type = "TimeoutError" ->
           [kind |-> "entry", healthy |-> FALSE, status |-> "timeout"]
      [] OTHER -> [kind |-> call.kind, healthy |-> FALSE, status |-> ""]

\* The try statement of run_checks around one check: the entry written to
\* results and whether the check counts as healthy.
HealthTry(call) ==
    CASE call.kind = "returned" ->
           [kind |-> "entry", healthy |-> call.value,
            status |-> IF call.value THEN "healthy" ELSE "unhealthy"]
      [] call.kind = "raised" /\ call.type = "TimeoutError" ->
           [kind |-> "entry", healthy |-> FALSE, status |-> "timeout"]
      [] call.kind = "raised" ->
           [kind |-> "entry", healthy |-> FALSE, status |-> "error"]
      [] OTHER -> [kind |-> call.kind, healthy |-> FALSE, status |-> ""]

\* One turn of the loop of run_checks: the next check is called and its entry
\* is written; a call that never comes back leaves run_checks blocked, an
\* error no except clause takes leaves it.
HealthCheckStep ==
    LET run == health.run
        d == health.checks[run.checker]
    IN  /\ run.state = "running"
        /\ run.i <= Len(d)
        /\ \E o \in Outcomes :
             LET try == HealthTry(CheckCall(d[run.i].value, o))
                 called == [run EXCEPT !.calls = Append(@, d[run.i]),
                                       !.outcomes = Append(@, o)]
             IN  health' = [health EXCEPT !.run =
                   CASE try.kind = "entry" ->
                          [called EXCEPT
                             !.i = @ + 1,
                             !.results = ItemSet(@, d[run.i].name, try.status),
                             !.overall_healthy = @ /\ try.healthy]
                     [] OTHER -> [called EXCEPT !.state = try.kind]]
        /\ UNCHANGED <<startup, http>>
        /\ UNCHANGED tracing

\* The loop of run_checks is over: the report is returned.
HealthReturn ==
    LET run == health.run
    IN  /\ run.state = "running"
        /\ run.i > Len(health.checks[run.checker])
        /\ health' = [health EXCEPT
                        !.run.state = "returned",
                        !.run.registered = health.checks[run.checker],
                        !.run.status = IF run.overall_healthy THEN "healthy"
                                       ELSE "degraded"]
        /\ UNCHANGED <<startup, http>>
        /\ UNCHANGED tracing

\* ---- StartupChecker

\* The most checks added to the StartupChecker.
MaxChecks == 2

\* StartupChecker.__init__(service_name, fail_on_error): no checks.  state is
\* "setup" until run_all_checks is called; calls, outcomes, statuses and
\* printed keep, in order, the checks run_all_checks called, what each did,
\* the status it was given and the tag printed for it.
StartupChecker(fail_on_error) ==
    [fail_on_error |-> fail_on_error, checks |-> <<>>, state |-> "setup",
     i |-> 0, results |-> <<>>, all_required_passed |-> TRUE,
     calls |-> <<>>, outcomes |-> <<>>, statuses |-> <<>>, printed |-> <<>>,
     summary |-> ""]

\* add_check(name, check_func, required).
AddCheck(name, check_func, required) ==
    /\ startup.state = "setup"
    /\ Len(startup.checks) < MaxChecks
    /\ startup' = [startup EXCEPT !.checks =
                      Append(@, [name |-> name, func |-> check_func,
                                 required |-> required])]
    /\ UNCHANGED <<health, http>>
    /\ UNCHANGED tracing

\* run_all_checks up to its loop.
RunAllChecks ==
    /\ startup.state = "setup"
    /\ startup' = [startup EXCEPT !.state = "running", !.i = 1]
    /\ UNCHANGED <<health, http>>
    /\ UNCHANGED tracing

\* _run_single_check: the result it returns and the tag it prints.
_run_single_check(call, required) ==
    CASE call.kind = "returned" /\ call.value ->
           [kind |-> "result", status |-> "pass", tag |-> "PASS"]
      [] call.kind = "returned" ->
           [kind |-> "result", status |-> "fail",
            tag |-> IF required THEN "FAIL" ELSE "WARN"]
      [] call.kind = "raised" /\ call.type = "TimeoutError" ->
           [kind |-> "result", status |-> "timeout", tag |-> "TIMEOUT"]
      [] call.kind = "raised" ->
           [kind |-> "result", status |-> "error",
            tag |-> IF required THEN "FAIL" ELSE "WARN"]
      [] OTHER -> [kind |-> call.kind, status |-> "", tag |-> ""]

\* A failed check counted whether or not it is required.
RequiredFailedAny(status, required) == status # "pass"

\* `result["status"] != "pass" and required`.
RequiredFailed(status, required) == status # "pass" /\ required

\* One turn of the loop of run_all_checks.
StartupStep ==
    LET s == startup
        check == s.checks[s.i]
    IN  /\ s.state = "running"
        /\ s.i <= Len(s.checks)
        /\ \E o \in Outcomes :
             LET result == _run_single_check(CheckCall(check.func, o),
                                             check.required)
                 called == [s EXCEPT !.calls = Append(@, s.i),
                                     !.outcomes = Append(@, o)]
             IN  startup' =
                   CASE result.kind = "result" ->
                          [called EXCEPT
                             !.i = @ + 1,
                             !.results = ItemSet(@, check.name, result.status),
                             !.statuses = Append(@, result.status),
                             !.printed = Append(@, result.tag),
                             !.all_required_passed =
                                 @ /\ ~RequiredFailed(result.status, check.required)]
                     [] OTHER -> [called EXCEPT !.state = result.kind]
        /\ UNCHANGED <<health, http>>
        /\ UNCHANGED tracing

\* _print_summary(success).
_print_summary(success, fail_on_error) ==
    IF success THEN "All checks passed. Service ready."
    ELSE IF fail_on_error THEN "Some checks failed. Service will not start."
    ELSE "Some checks failed. Service starting anyway."

\* The loop of run_all_checks is over: the summary is printed, and the
\* results are returned or RuntimeError is raised.
StartupFinish ==
    LET s == startup
    IN  /\ s.state = "running"
        /\ s.i > Len(s.checks)
        /\ startup' = [s EXCEPT
                         !.summary = _print_summary(s.all_required_passed,
                                                    s.fail_on_error),
                         !.state = IF ~s.all_required_passed /\ s.fail_on_error
                                   THEN "raised" ELSE "returned"]
        /\ UNCHANGED <<health, http>>
        /\ UNCHANGED tracing

\* -------------------------------------------------------------- specification

Init ==
    /\ cfg \in Configs
    /\ pc = [t \in Tasks |-> IF t \in ReqTasks THEN "idle" ELSE "unborn"]
    /\ ctx = [t \in Tasks |-> DefaultContext]
    /\ rq = [t \in Tasks |-> NoRequest]
    /\ own = [t \in Tasks |-> NothingWritten]
    /\ born = [t \in Tasks |-> DefaultContext]
    /\ ids = NoIds
    /\ http = NewWrapper
    /\ health = NoHealth
    /\ startup = StartupChecker(FALSE)

\* One service: requests from outside, their handlers and the tasks they start.
Next ==
    \/ Receive(ExternalHeaders)
    \/ \E h \in HandlerResponseHeaders, d \in Durations : HandlerReturn("A", h, d)
    \/ HandlerRaise("A")
    \/ HandlerCancel("A")
    \/ \E a \in UserSetArgs : UserSet("A", a)
    \/ UserClear("A")
    \/ \E u \in Tasks : InHandler("A") /\ Spawn("A", u)

Spec == Init /\ [][Next]_vars

\* The values the tasks of the Context Store workload write.
StoreValue(t) == CASE t = "A" -> <<"X">> [] t = "B" -> <<"Y">> [] OTHER -> <<"Z">>

\* The values one call of a task passes: A also passes the empty string, which
\* is a value like any other for `is not None`.
StoreValues(t) == IF t = "A" THEN {StoreValue(t), <<>>} ELSE {StoreValue(t)}

\* The arguments of their set_trace_context calls: A and B pass one value in
\* every subset of the fields, a started task passes all of them.
StoreSetArgs(t) ==
    IF t \in ReqTasks
    THEN UNION { { <<a, b, c>> : a \in {None, v}, b \in {None, v}, c \in {None, v} }
                 : v \in StoreValues(t) }
    ELSE { <<StoreValue(t), StoreValue(t), StoreValue(t)>> }

\* The Context Store alone: tasks that set, clear and start tasks, interleaved
\* in every order.
NextStore ==
    \/ \E t \in Tasks : \E a \in StoreSetArgs(t) : TaskSet(t, a)
    \/ \E t \in Tasks : TaskClear(t)
    \/ \E t \in Tasks, u \in Tasks : Spawn(t, u)
    \/ \E u \in Tasks : TaskExit(u)

InitStore ==
    /\ cfg = CHOOSE k \in Configs : k.service_short = None
    /\ pc = [t \in Tasks |-> IF t \in ReqTasks THEN "idle" ELSE "unborn"]
    /\ ctx = [t \in Tasks |-> DefaultContext]
    /\ rq = [t \in Tasks |-> NoRequest]
    /\ own = [t \in Tasks |-> NothingWritten]
    /\ born = [t \in Tasks |-> DefaultContext]
    /\ ids = NoIds
    /\ http = NewWrapper
    /\ health = NoHealth
    /\ startup = StartupChecker(FALSE)

SpecStore == InitStore /\ [][NextStore]_vars

\* The requests from outside in the two-request workload.
HopExternalHeaders ==
    { Inbound(None, None, None),
      Inbound(UpstreamTrace, UpstreamRequest, UpstreamSpan) }

\* The arguments of the set_trace_context calls of A's handler: it replaces
\* the ids the middleware bound, or stores an empty trace id.
HopSetArgs == { <<HandlerTrace, HandlerRequest, None>>, <<<<>>, None, None>> }

\* A's handler runs and has not yet called the service.
BeforeCall == InHandler("A") /\ pc["B"] = "idle"

\* Two requests in flight at once: one from outside in task A, whose handler
\* calls the service again through TracedHttpClient, and that call's request
\* in task B.
NextHop ==
    \/ Receive(HopExternalHeaders)
    \/ ReceiveHop
    \/ \E t \in ReqTasks, h \in HandlerResponseHeaders, d \in Durations :
           HandlerReturn(t, h, d)
    \/ \E t \in ReqTasks : HandlerRaise(t)
    \/ \E t \in ReqTasks : HandlerCancel(t)
    \/ \E a \in HopSetArgs : BeforeCall /\ UserSet("A", a)
    \/ BeforeCall /\ UserClear("A")

SpecHop == Init /\ [][NextHop]_vars

\* The service_short arguments of the generate_trace_id calls.
ShortValues ==
    { <<"s", "v", "c">>, <<"a", "u", "t", "h">>, <<>>, <<"-">>, <<"t", "-", "s">>,
      <<"m", "y", "-", "s", "e", "r", "v", "i", "c", "e">>, <<"a", "-", "-", "b">> }

\* int(time.time()) at those calls.
IdClockReadings == {0, 26, 4660}

\* Strings handed to parse_trace_id that generate_trace_id did not make.
RawInputs ==
    { <<>>, <<"-">>, <<"-", "-">>,
      <<"i", "n", "v", "a", "l", "i", "d">>,
      <<"a", "-", "b", "-", "m", "y", "-", "s", "e", "r", "v", "i", "c", "e">>,
      <<"1", "f", "-", "c", "0">>,
      <<"1", "f", "-", "-">>,
      <<"g", "-", "1", "-", "2">>,
      <<"F", "F", "-", "c", "0", "-", "x">>,
      <<"+", "1", "f", "-", "c", "0", "-", "x">>,
      <<"0", "x", "1", "f", "-", "c", "0", "-", "x">>,
      <<"0", "x", "-", "c", "0", "-", "x">>,
      <<"1", "_", "f", "-", "c", "0", "-", "x">>,
      <<"1", "_", "_", "f", "-", "c", "0", "-", "x">>,
      <<"_", "1", "-", "c", "0", "-", "x">>,
      <<" ", "1", "f", " ", "-", "c", "0", "-", "x">>,
      <<"1", " ", "f", "-", "c", "0", "-", "x">>,
      UpstreamTrace, UnparseableTrace, ShortTrace }

\* Code calls generate_trace_id(service_short).
GenerateTraceId ==
    \E service_short \in ShortValues, now \in IdClockReadings, token \in RandomTokens :
        /\ ids' = [origin |-> "generated", service_short |-> service_short,
                   trace_id |-> generate_trace_id(service_short, now, token),
                   call |-> NoCall]
        /\ UNCHANGED <<startup, health, http, cfg, pc, ctx, rq, own, born>>

\* Code holds a string from elsewhere.
TakeRaw ==
    \E raw \in RawInputs :
        /\ ids' = [origin |-> "raw", service_short |-> <<>>, trace_id |-> raw,
                   call |-> NoCall]
        /\ UNCHANGED <<startup, health, http, cfg, pc, ctx, rq, own, born>>

\* Code calls parse_trace_id on the string it holds.
ParseTraceId ==
    /\ ids.origin # "none"
    /\ ids.call.kind = "none"
    /\ ids' = [ids EXCEPT !.call = parse_trace_id_call(ids.trace_id)]
    /\ UNCHANGED <<startup, health, http, cfg, pc, ctx, rq, own, born>>

\* The identifier functions alone.
NextIds == GenerateTraceId \/ TakeRaw \/ ParseTraceId

SpecIds == InitStore /\ [][NextIds]_vars

\* The state in which nothing has used the tracing core.
InitIdle ==
    /\ cfg = CHOOSE k \in Configs : k.service_short = None
    /\ pc = [t \in Tasks |-> IF t \in ReqTasks THEN "idle" ELSE "unborn"]
    /\ ctx = [t \in Tasks |-> DefaultContext]
    /\ rq = [t \in Tasks |-> NoRequest]
    /\ own = [t \in Tasks |-> NothingWritten]
    /\ born = [t \in Tasks |-> DefaultContext]
    /\ ids = NoIds

\* The collaborators before their first use.
InitCollaborators ==
    /\ InitIdle
    /\ http = NewWrapper
    /\ health = NoHealth
    /\ startup = StartupChecker(FALSE)

\* Two tasks share one TracedHttpClient.
NextClient ==
    \/ \E t \in ReqTasks : AEnter(t)
    \/ \E t \in ReqTasks : Request(t)
    \/ \E t \in ReqTasks : Close(t)
    \/ \E t \in ReqTasks : CloseResume(t)

SpecClient == InitCollaborators /\ [][NextClient]_vars

\* Apps are given health routes, checks are registered and /health is asked.
NextHealth ==
    \/ \E a \in Apps, n \in ServiceNames, d \in CheckDicts :
           SetupHealthRoutes(a, n, d)
    \/ \E n \in ServiceNames, f \in CheckFuncs : RegisterCheck(n, "redis", f)
    \/ \E a \in Apps : HealthRequest(a)
    \/ HealthCheckStep
    \/ HealthReturn

SpecHealth == InitCollaborators /\ [][NextHealth]_vars

\* A StartupChecker is built, given checks and run once.
InitStartup ==
    /\ InitIdle
    /\ http = NewWrapper
    /\ health = NoHealth
    /\ \E fail_on_error \in BOOLEAN : startup = StartupChecker(fail_on_error)

NextStartup ==
    \/ \E k \in CheckNames, f \in CheckFuncs, required \in BOOLEAN :
           AddCheck(k, f, required)
    \/ RunAllChecks
    \/ StartupStep
    \/ StartupFinish

\* run_all_checks is a coroutine the event loop keeps running: a step that
\* can be taken is taken.
SpecStartup ==
    /\ InitStartup
    /\ [][NextStartup]_vars
    /\ WF_vars(StartupStep)
    /\ WF_vars(StartupFinish)

\* ------------------------------------------------------------------- claims

\* What task t must read for a field: its own last write to the field, or,
\* when it never wrote the field, what it started with.
ExpectedRead(t) ==
    TraceContext(IF own[t].trace_id = Unwritten THEN born[t].trace_id
                 ELSE own[t].trace_id,
                 IF own[t].request_id = Unwritten THEN born[t].request_id
                 ELSE own[t].request_id,
                 IF own[t].parent_span_id = Unwritten THEN born[t].parent_span_id
                 ELSE own[t].parent_span_id)

\* C1: Context Store isolation.  In every interleaving of the tasks'
\* set_trace_context and clear_trace_context calls, each getter of a task
\* returns that task's own most recent write to the field (what the task
\* started with while it has not written it): no call of another task
\* changes what a task reads.
C1_Isolation ==
    \A t \in Tasks : pc[t] # "unborn" =>
        /\ get_trace_id(ctx[t]) = ExpectedRead(t).trace_id
        /\ get_request_id(ctx[t]) = ExpectedRead(t).request_id
        /\ get_parent_span_id(ctx[t]) = ExpectedRead(t).parent_span_id

\* A wrote X and B wrote Y to the same field, B cleared another one that A
\* holds, and a task started by one of them wrote its own value.
C1_Witness ==
    /\ own["A"] = TraceContext(<<"X">>, <<"X">>, Unwritten)
    /\ own["B"] = TraceContext(<<"Y">>, None, None)
    /\ pc["C"] = "idle"
    /\ own["C"].trace_id = <<"Z">>
    /\ get_trace_id(ctx["A"]) = <<"X">>
    /\ get_trace_id(ctx["B"]) = <<"Y">>

\* ----------------------------------------------- the requests of the claims

\* Task t has a request: dispatch is awaiting its handler or has finished.
Started(t) == pc[t] \in {"dispatched", "done"} /\ rq[t].origin # "none"

\* The names of what has happened to t's request, in order.
Events(t) == [i \in 1..Len(rq[t].hist) |-> rq[t].hist[i].ev]

\* Where event e stands in t's history.
Pos(t, e) == {i \in 1..Len(rq[t].hist) : rq[t].hist[i].ev = e}

Once(t, e) == Cardinality(Pos(t, e)) = 1

Never(t, e) == Pos(t, e) = {}

\* Every e1 of t's history stands before every e2.
Before(t, e1, e2) == \A i \in Pos(t, e1), j \in Pos(t, e2) : i < j

\* The context of task t right after CONTEXT_BOUND.
Bound(t) == rq[t].hist[CHOOSE i \in Pos(t, "context_bound") : TRUE].ctx

\* The context of task t when the handler was invoked.
AtHandler(t) == rq[t].hist[CHOOSE i \in Pos(t, "dispatched") : TRUE].ctx

AllUnset(c) ==
    /\ get_trace_id(c) = None
    /\ get_request_id(c) = None
    /\ get_parent_span_id(c) = None

\* C2: guaranteed cleanup.  Once dispatch has finished, by returning the
\* response or by raising, the three getters read in the same task return
\* None.
C2_Cleanup == \A t \in ReqTasks : pc[t] = "done" => AllUnset(ctx[t])

\* A request that bound all three fields and ended with the handler's error.
C2_Witness ==
    /\ pc["A"] = "done"
    /\ rq["A"].result.kind = "raised"
    /\ get_trace_id(Bound("A")) # None
    /\ get_request_id(Bound("A")) # None
    /\ get_parent_span_id(Bound("A")) # None

\* C3: when call_next raises, the error that leaves dispatch is the error
\* call_next raised, no response is produced and no header is injected.
C3_ErrorPropagates ==
    \A t \in ReqTasks : (pc[t] = "done" /\ rq[t].thrown # NoError) =>
        /\ rq[t].result.kind = "raised"
        /\ rq[t].result.exc = rq[t].thrown
        /\ rq[t].result.headers = NoHeaders
        /\ Never(t, "headers_injected")

\* A request whose handler raised an Exception, logged as failed.
C3_Witness ==
    /\ pc["A"] = "done"
    /\ rq["A"].thrown \in HandlerErrors
    /\ Once("A", "log_failed")

\* The lifecycle states a history passes through: COMPLETED is entered when
\* call_next returns, FAILED when the except clause takes the error.
StageOf(e) ==
    CASE e = "start" -> "START"
      [] e = "context_bound" -> "CONTEXT_BOUND"
      [] e = "dispatched" -> "DISPATCHED"
      [] e = "handler_returned" -> "COMPLETED"
      [] e = "log_failed" -> "FAILED"
      [] e = "context_cleared" -> "CONTEXT_CLEARED"
      [] OTHER -> ""

RECURSIVE StagesOf(_)
StagesOf(es) ==
    IF Len(es) = 0 THEN <<>>
    ELSE (IF StageOf(es[1]) = "" THEN <<>> ELSE <<StageOf(es[1])>>) \o StagesOf(Tail(es))

Stages(t) == StagesOf(Events(t))

\* What the ordering part of the lifecycle says of a request: bound once and
\* before the one invocation of the handler; cleared once, after the handler
\* ended and after every log line and the header injection; not cleared while
\* the handler runs.
LifecycleOrder(t) ==
    /\ Once(t, "start") /\ Once(t, "context_bound") /\ Once(t, "dispatched")
    /\ Before(t, "start", "context_bound")
    /\ Before(t, "context_bound", "dispatched")
    /\ pc[t] = "dispatched" =>
          /\ Never(t, "context_cleared")
          /\ Never(t, "handler_returned") /\ Never(t, "handler_raised")
    /\ pc[t] = "done" =>
          /\ Once(t, "context_cleared")
          /\ Cardinality(Pos(t, "handler_returned") \cup Pos(t, "handler_raised")) = 1
          /\ \A e \in {"dispatched", "handler_returned", "handler_raised",
                       "log_started", "log_completed", "log_failed",
                       "headers_injected"} : Before(t, e, "context_cleared")
          /\ Before(t, "dispatched", "handler_returned")
          /\ Before(t, "dispatched", "handler_raised")
          /\ AllUnset(rq[t].hist[CHOOSE i \in Pos(t, "context_cleared") : TRUE].ctx)

CompletedPath == <<"START", "CONTEXT_BOUND", "DISPATCHED", "COMPLETED", "CONTEXT_CLEARED">>
FailedPath == <<"START", "CONTEXT_BOUND", "DISPATCHED", "FAILED", "CONTEXT_CLEARED">>
CancelledPath == <<"START", "CONTEXT_BOUND", "DISPATCHED", "CONTEXT_CLEARED">>

C5_CancelCleanup ==
    \A t \in ReqTasks : (pc[t] = "done" /\ rq[t].thrown = CancelledError) =>
        /\ AllUnset(ctx[t])
        /\ Once(t, "context_cleared")
        /\ Before(t, "context_cleared", "raised")
        /\ rq[t].result.kind = "raised"
        /\ rq[t].result.exc = CancelledError

\* A cancelled request that had bound all three fields.
C5_Witness ==
    /\ pc["A"] = "done"
    /\ rq["A"].thrown = CancelledError
    /\ get_trace_id(Bound("A")) # None
    /\ get_parent_span_id(Bound("A")) # None

\* The headers of the response that left dispatch for task t's request.
Out(t) == rq[t].result.headers

Responded(t) == pc[t] = "done" /\ rq[t].result.kind = "response"

\* What C6 says of the four headers every response carries.
TracingHeaders(t) ==
    /\ HeaderGet(Out(t), TRACE_ID_HEADER) = get_trace_id(Bound(t))
    /\ HeaderGet(Out(t), REQUEST_ID_HEADER) = get_request_id(Bound(t))
    /\ HeaderGet(Out(t), TRACE_ID_HEADER) # None
    /\ HeaderGet(Out(t), REQUEST_ID_HEADER) # None
    /\ HeaderGet(Out(t), RESPONSE_TIME_HEADER) # None
    /\ EndsWith(HeaderGet(Out(t), RESPONSE_TIME_HEADER), <<"m", "s">>)
    /\ HeaderGet(Out(t), SERVED_BY_HEADER) # None
    /\ StartsWith(HeaderGet(Out(t), SERVED_BY_HEADER), cfg.service_name \o <<"-">>)

\* C6 as claimed: on every normal return the response carries X-Trace-ID and
\* X-Request-ID equal to the ids bound for the request, X-Response-Time and
\* X-Served-By, and X-Deployment-ID if and only if a non-empty deployment
\* identifier is configured.
C6_Original ==
    \A t \in ReqTasks : Responded(t) =>
        /\ TracingHeaders(t)
        /\ HeaderGet(Out(t), DEPLOYMENT_ID_HEADER) # None
               <=> Truthy(cfg.env.DEPLOYMENT_ID)

\* C6, amended: as claimed for the first four headers; X-Deployment-ID is the
\* configured identifier when a non-empty one is configured, and otherwise is
\* left as the handler's response had it (absent unless the handler set it).
C6_ResponseHeaders ==
    \A t \in ReqTasks : Responded(t) =>
        /\ TracingHeaders(t)
        /\ HeaderGet(Out(t), DEPLOYMENT_ID_HEADER) =
               (IF Truthy(cfg.env.DEPLOYMENT_ID) THEN cfg.env.DEPLOYMENT_ID
                ELSE HeaderGet(rq[t].returned, DEPLOYMENT_ID_HEADER))

\* A response of a handler that called set_trace_context itself and returned
\* headers of its own, with a deployment identifier configured.
C6_Witness ==
    /\ Responded("A")
    /\ get_trace_id(ctx["A"]) = None
    /\ \E i \in Pos("A", "handler_returned") :
           get_trace_id(rq["A"].hist[i].ctx) = HandlerTrace
    /\ HeaderGet(rq["A"].returned, TRACE_ID_HEADER) = DownstreamTrace
    /\ HeaderGet(Out("A"), TRACE_ID_HEADER) # HandlerTrace
    /\ Truthy(cfg.env.DEPLOYMENT_ID)

\* What C7 says of a request whose inbound X-Trace-ID is v.
TraceReused(t, v) ==
    /\ get_trace_id(AtHandler(t)) = v
    /\ Responded(t) => HeaderGet(Out(t), TRACE_ID_HEADER) = v

\* C7 as claimed: for every request carrying an X-Trace-ID header with value
\* v, the trace_id bound during the handler and the response's X-Trace-ID
\* are v.
C7_Original ==
    \A t \in ReqTasks :
        (Started(t) /\ HeaderGet(rq[t].headers, TRACE_ID_HEADER) # None) =>
            TraceReused(t, HeaderGet(rq[t].headers, TRACE_ID_HEADER))

\* C7, amended: for every request carrying an X-Trace-ID header with a
\* non-empty value v.
C7_TraceReuse ==
    \A t \in ReqTasks :
        (Started(t) /\ Truthy(HeaderGet(rq[t].headers, TRACE_ID_HEADER))) =>
            TraceReused(t, HeaderGet(rq[t].headers, TRACE_ID_HEADER))

\* A response to a request that carried the trace id of an upstream service.
C7_Witness ==
    /\ Responded("A")
    /\ HeaderGet(rq["A"].headers, TRACE_ID_HEADER) = UpstreamTrace
    /\ HeaderGet(Out("A"), TRACE_ID_HEADER) = UpstreamTrace

\* What C8 says of a response when the service short is s.
GeneratedWith(t, s) ==
    /\ EndsWith(HeaderGet(Out(t), TRACE_ID_HEADER), <<"-">> \o s)
    /\ StartsWith(HeaderGet(Out(t), REQUEST_ID_HEADER), s \o <<"_">>)

\* C8 as claimed: with no inbound X-Trace-ID the response's X-Trace-ID ends
\* with "-" + service_short and its X-Request-ID starts with service_short +
\* "_", service_short being the configured value or, when none is configured,
\* the first 4 characters of service_name.
C8_Original ==
    \A t \in ReqTasks :
        (Responded(t) /\ HeaderGet(rq[t].headers, TRACE_ID_HEADER) = None) =>
            GeneratedWith(t, IF cfg.service_short # None THEN cfg.service_short
                             ELSE Take(cfg.service_name, 4))

\* C8, amended: service_short being the configured value when it is not
\* empty and, when none is configured or the configured one is the empty
\* string, the first 4 characters of service_name.
C8_Generated ==
    \A t \in ReqTasks :
        (Responded(t) /\ HeaderGet(rq[t].headers, TRACE_ID_HEADER) = None) =>
            GeneratedWith(t, IF cfg.service_short # None /\ cfg.service_short # <<>>
                             THEN cfg.service_short
                             ELSE Take(cfg.service_name, 4))

\* A response to a request without X-Trace-ID, served by a middleware that
\* was given no service_short and a service_name longer than 4 characters.
C8_Witness ==
    /\ Responded("A")
    /\ HeaderGet(rq["A"].headers, TRACE_ID_HEADER) = None
    /\ cfg.service_short = None
    /\ Len(cfg.service_name) > 4
    /\ StartsWith(HeaderGet(Out("A"), REQUEST_ID_HEADER), <<"a", "u", "t", "h", "_">>)

\* The request id of t's request is the one bound in the store and the one
\* the response carries.
RequestIdUsed(t) ==
    /\ get_request_id(Bound(t)) = rq[t].request_id
    /\ get_request_id(AtHandler(t)) = rq[t].request_id
    /\ Responded(t) => HeaderGet(Out(t), REQUEST_ID_HEADER) = rq[t].request_id

\* C9 as claimed: the request id bound in the store and returned in
\* X-Request-ID is never taken from the inbound request and is never the
\* request id of another request the middleware handles, concurrent ones and
\* ones of the same trace included.
C9_Original ==
    \A t \in ReqTasks : Started(t) =>
        /\ RequestIdUsed(t)
        /\ rq[t].request_id # HeaderGet(rq[t].headers, REQUEST_ID_HEADER)
        /\ \A u \in ReqTasks \ {t} :
               Started(u) => rq[u].request_id # rq[t].request_id

\* C9, amended: for every inbound request the middleware generates
\* request_id = service_short + "_" + 12 hexadecimal characters drawn at
\* random for that request; the value bound in the store and returned in
\* X-Request-ID is that one, never the inbound X-Request-ID, and it differs
\* from the request id of another request exactly when the two random draws
\* differ (nothing but the 48 random bits keeps two requests' ids apart).
C9_HopScoped ==
    \A t \in ReqTasks : Started(t) =>
        /\ RequestIdUsed(t)
        /\ rq[t].request_id = generate_request_id(ServiceShort(cfg), rq[t].token)
        /\ rq[t].request_id # HeaderGet(rq[t].headers, REQUEST_ID_HEADER)
        /\ \A u \in ReqTasks \ {t} :
               Started(u) => (rq[u].request_id # rq[t].request_id
                                  <=> rq[u].token # rq[t].token)

\* Two requests of one trace in flight at once, the outer one carrying an
\* X-Request-ID of its sender, with different request ids.
C9_Witness ==
    /\ pc["A"] = "dispatched" /\ pc["B"] = "dispatched"
    /\ rq["B"].origin = "hop"
    /\ rq["A"].trace_id = rq["B"].trace_id
    /\ HeaderGet(rq["A"].headers, REQUEST_ID_HEADER) = UpstreamRequest
    /\ rq["A"].request_id # rq["B"].request_id
    /\ rq["B"].parent_span_id = rq["A"].request_id

\* The trace id of t's request is one generate_trace_id made for the service.
FreshTraceId(t) ==
    /\ \E now \in ClockReadings, token \in RandomTokens :
           rq[t].trace_id = generate_trace_id(ServiceShort(cfg), now, token)
    /\ get_trace_id(Bound(t)) = rq[t].trace_id

\* parse_trace_id reports valid=false for v.
Unparseable(v) == ~parse_trace_id(v).valid

\* C10 as claimed: an inbound X-Trace-ID that is absent or unparseable is
\* not used: a fresh trace id is generated for the request.
C10_Original ==
    \A t \in ReqTasks : Started(t) =>
        LET v == HeaderGet(rq[t].headers, TRACE_ID_HEADER)
        IN  (v = None \/ Unparseable(v)) => (FreshTraceId(t) /\ rq[t].trace_id # v)

\* C10, amended: an inbound X-Trace-ID that is absent or empty triggers the
\* generation of a fresh trace id; a non-empty one is used as it is, also
\* when parse_trace_id reports valid=false for it.  Neither is fatal.
C10_Malformed ==
    \A t \in ReqTasks : Started(t) =>
        LET v == HeaderGet(rq[t].headers, TRACE_ID_HEADER)
        IN  /\ (v = None \/ v = <<>>) => FreshTraceId(t)
            /\ (v # None /\ v # <<>> /\ Unparseable(v)) =>
                   /\ rq[t].trace_id = v
                   /\ get_trace_id(Bound(t)) = v
                   /\ Responded(t) => HeaderGet(Out(t), TRACE_ID_HEADER) = v

\* A request whose X-Trace-ID has three segments and no hexadecimal first
\* one was served, with that value as its trace id.
C10_Witness ==
    /\ Responded("A")
    /\ HeaderGet(rq["A"].headers, TRACE_ID_HEADER) = UnparseableTrace
    /\ Unparseable(UnparseableTrace)
    /\ Unparseable(ShortTrace)
    /\ ~Unparseable(UpstreamTrace)
    /\ HeaderGet(Out("A"), TRACE_ID_HEADER) = UnparseableTrace

\* ------------------------------------------- the Context Store within a task

\* The value a field has after set_trace_context was called with argument a
\* for it, when it had the value old: a passed argument is stored, an omitted
\* one (None) leaves the field as it was.
PartialUpdate(old, a) == IF a = None THEN old ELSE a

\* C11: Partial update.  set_trace_context changes only the fields passed to
\* it: after the call a passed field has the passed value (the empty string
\* included) and every omitted field has the value it had before the call.
C11_PartialUpdate ==
    \A t \in Tasks : pc[t] # "unborn" =>
        \A a \in StoreSetArgs(t) :
            LET after == set_trace_context(ctx[t], a[1], a[2], a[3])
            IN  /\ get_trace_id(after) = PartialUpdate(get_trace_id(ctx[t]), a[1])
                /\ get_request_id(after) = PartialUpdate(get_request_id(ctx[t]), a[2])
                /\ get_parent_span_id(after) =
                       PartialUpdate(get_parent_span_id(ctx[t]), a[3])

\* Task A holds values of two calls: the later call passed the empty string
\* for trace_id only and left request_id as the earlier call had set it.
C11_Witness ==
    /\ own["A"] = TraceContext(<<>>, <<"X">>, Unwritten)
    /\ get_trace_id(ctx["A"]) = <<>>
    /\ get_request_id(ctx["A"]) = <<"X">>
    /\ get_parent_span_id(ctx["A"]) = None

\* What the getters, get_current_context and clear_trace_context do in task
\* t whose reference record is ref.
AgreesWith(t, ref) ==
    /\ get_trace_id(ctx[t]) = ref.trace_id
    /\ get_request_id(ctx[t]) = ref.request_id
    /\ get_parent_span_id(ctx[t]) = ref.parent_span_id
    /\ get_current_context(ctx[t]) =
           TraceContext(get_trace_id(ctx[t]), get_request_id(ctx[t]),
                        get_parent_span_id(ctx[t]))
    /\ clear_trace_context(ctx[t]) = TraceContext(None, None, None)

\* The reference record of the claim: per field the most recent set since the
\* last clear, unset if there is none.
RecordFromUnset(t) ==
    TraceContext(IF own[t].trace_id = Unwritten THEN None ELSE own[t].trace_id,
                 IF own[t].request_id = Unwritten THEN None ELSE own[t].request_id,
                 IF own[t].parent_span_id = Unwritten THEN None
                 ELSE own[t].parent_span_id)

\* C12 as claimed: after any sequence of set_trace_context and
\* clear_trace_context calls in a task each getter returns the most recent
\* set of the field since the last clear, unset if there is none; clear makes
\* all three unset; get_current_context returns the triple of the getters.
C12_Original == \A t \in Tasks : pc[t] # "unborn" => AgreesWith(t, RecordFromUnset(t))

\* C12, amended: as claimed, but where the task has neither set the field nor
\* cleared, the getter returns the value the task started with: unset for a
\* task that started with an empty context, its creator's value at the time
\* for a task created by a task that held one.
C12_Reference == \A t \in Tasks : pc[t] # "unborn" => AgreesWith(t, ExpectedRead(t))

\* Task B set, cleared and set one field again; the task started by A when A
\* held values reads them without a call of its own.
C12_Witness ==
    /\ own["B"] = TraceContext(None, <<"Y">>, None)
    /\ get_request_id(ctx["B"]) = <<"Y">>
    /\ pc["C"] = "idle"
    /\ own["C"] = NothingWritten
    /\ get_trace_id(ctx["C"]) = <<"X">>

\* Task t holds no value of a set_trace_context call of its own: it has not
\* called it, or has called clear_trace_context since.
HoldsNoOwnValue(t) ==
    /\ own[t].trace_id \in {Unwritten, None}
    /\ own[t].request_id \in {Unwritten, None}
    /\ own[t].parent_span_id \in {Unwritten, None}

\* C13 as claimed: in every task that has never itself called
\* set_trace_context, however and whenever it was created, the three getters
\* return None.
C13_Original ==
    \A t \in Tasks : (pc[t] # "unborn" /\ HoldsNoOwnValue(t)) =>
        ctx[t] = TraceContext(None, None, None)

\* C13, amended: the getters never raise, and in a task that has never
\* itself called set_trace_context they return what the task started with
\* (None once the task has called clear_trace_context): None in a task that
\* started with an empty context, and in a task created by another task the
\* values its creator's context held when it was created.
C13_Default ==
    \A t \in Tasks : (pc[t] # "unborn" /\ HoldsNoOwnValue(t)) =>
        /\ t \in ReqTasks => born[t] = DefaultContext
        /\ get_trace_id(ctx[t]) =
               (IF own[t].trace_id = Unwritten THEN born[t].trace_id ELSE None)
        /\ get_request_id(ctx[t]) =
               (IF own[t].request_id = Unwritten THEN born[t].request_id ELSE None)
        /\ get_parent_span_id(ctx[t]) =
               (IF own[t].parent_span_id = Unwritten THEN born[t].parent_span_id
                ELSE None)

\* A task that B started while B held values, and that has called neither
\* set_trace_context nor clear_trace_context, reads B's values after B has
\* cleared its own; task A, which never called anything, reads None.
C13_Witness ==
    /\ pc["C"] = "idle"
    /\ own["C"] = NothingWritten
    /\ ctx["C"] = TraceContext(<<"Y">>, <<"Y">>, <<"Y">>)
    /\ ctx["B"] = TraceContext(None, None, None)
    /\ own["A"] = NothingWritten
    /\ ctx["A"] = TraceContext(None, None, None)

\* ------------------------------------------------ calls to another service

\* Task B handles a request that A's handler sent with TracedHttpClient.
Hop == Started("B") /\ rq["B"].origin = "hop"

\* The context of the calling task when it sent B's request.
Caller == rq["B"].sender

\* A mapping with the three keys the mapper may set, None for an absent key.
Mapping(t, p, d) ==
    [n \in HeaderNames |-> CASE n = TRACE_ID_HEADER -> t
                             [] n = PARENT_SPAN_ID_HEADER -> p
                             [] n = DEPLOYMENT_ID_HEADER -> d
                             [] OTHER -> None]

NoEmptyValues(h) == \A n \in HeaderNames : h[n] # <<>>

\* What the mapper returns for context c, a key being present iff its
\* predicate holds of the value it comes from.
MapperFor(c, IsSet(_)) ==
    Mapping(IF IsSet(get_trace_id(c)) THEN get_trace_id(c) ELSE None,
            IF IsSet(get_request_id(c)) THEN get_request_id(c) ELSE None,
            IF Truthy(cfg.env.DEPLOYMENT_ID) THEN cfg.env.DEPLOYMENT_ID ELSE None)

IsSetValue(v) == v # None

\* What C14 says of get_trace_headers with "is set" read as IsSet: in every
\* task's context, and in the headers of a call whose caller supplied none;
\* and the caller's context after the call is what it was before.
MapperContract(IsSet(_)) ==
    /\ \A t \in ReqTasks :
           /\ get_trace_headers(ctx[t], cfg.env) = MapperFor(ctx[t], IsSet)
           /\ NoEmptyValues(get_trace_headers(ctx[t], cfg.env))
    /\ (Hop /\ rq["B"].supplied = None) =>
           /\ rq["B"].headers = MapperFor(Caller, IsSet)
           /\ NoEmptyValues(rq["B"].headers)
    /\ (Hop /\ pc["A"] = "dispatched") => ctx["A"] = Caller

\* C14 as claimed: get_trace_headers() returns exactly X-Trace-ID = trace_id
\* iff trace_id is set, X-Parent-Span-ID = request_id iff request_id is set
\* (never the store's parent_span_id), X-Deployment-ID iff a deployment
\* identifier is configured; no other keys, no empty-string values; the
\* store is left unchanged.
C14_Original == MapperContract(IsSetValue)

\* C14, amended: X-Trace-ID = trace_id iff trace_id is set to a non-empty
\* string, X-Parent-Span-ID = request_id iff request_id is set to a non-empty
\* string, X-Deployment-ID iff a non-empty deployment identifier is
\* configured; the rest as claimed.
C14_Mapper == MapperContract(Truthy)

\* A call sent from a context whose trace_id the handler had set to the
\* empty string, with a parent_span_id of its own and a deployment configured:
\* the headers hold the caller's request_id as X-Parent-Span-ID and the
\* deployment, and no X-Trace-ID.
C14_Witness ==
    /\ Hop /\ rq["B"].supplied = None
    /\ get_trace_id(Caller) = <<>>
    /\ get_parent_span_id(Caller) = UpstreamSpan
    /\ HeaderGet(rq["B"].headers, PARENT_SPAN_ID_HEADER) = rq["A"].request_id
    /\ HeaderGet(rq["B"].headers, TRACE_ID_HEADER) = None
    /\ HeaderGet(rq["B"].headers, DEPLOYMENT_ID_HEADER) = cfg.env.DEPLOYMENT_ID
    /\ cfg.env.DEPLOYMENT_ID # None
    /\ ctx["A"] = Caller

\* The handler of A's request has left the ids the middleware bound for the
\* request in place up to the call.
CallerUntouched ==
    /\ get_trace_id(Caller) = rq["A"].trace_id
    /\ get_request_id(Caller) = rq["A"].request_id

\* C15 as claimed: when a handler running inside request R_A calls the
\* service through TracedHttpClient without supplying tracing headers, then
\* during the handling of that call B's trace_id equals A's trace_id for R_A,
\* B's parent_span_id equals A's request_id for R_A, and B's request_id
\* differs from A's request_id.
C15_Original ==
    (Hop /\ rq["B"].supplied = None) =>
        /\ get_trace_id(AtHandler("B")) = rq["A"].trace_id
        /\ get_parent_span_id(AtHandler("B")) = rq["A"].request_id
        /\ get_request_id(AtHandler("B")) # rq["A"].request_id

\* C15, amended: in such a call B's trace_id is the non-empty trace_id the
\* caller's context holds at the time of the call (a fresh one generated by
\* B where it holds none or an empty one) and B's parent_span_id is the
\* non-empty request_id the caller's context holds (none where it holds
\* none); these are A's trace_id and request_id for R_A as long as the
\* handler has not replaced or cleared them with set_trace_context or
\* clear_trace_context.  B's request_id is generated by B and differs from
\* A's exactly when the service shorts or the random draws differ.
C15_HopChain ==
    (Hop /\ rq["B"].supplied = None) =>
        /\ get_trace_id(AtHandler("B")) = rq["B"].trace_id
        /\ get_parent_span_id(AtHandler("B")) = rq["B"].parent_span_id
        /\ get_request_id(AtHandler("B")) = rq["B"].request_id
        /\ IF Truthy(get_trace_id(Caller))
           THEN rq["B"].trace_id = get_trace_id(Caller)
           ELSE \E now \in ClockReadings, token \in RandomTokens :
                    rq["B"].trace_id = generate_trace_id(ServiceShort(cfg), now, token)
        /\ rq["B"].parent_span_id =
               (IF Truthy(get_request_id(Caller)) THEN get_request_id(Caller) ELSE None)
        /\ CallerUntouched =>
               /\ rq["B"].trace_id = rq["A"].trace_id
               /\ rq["B"].parent_span_id = rq["A"].request_id
        /\ rq["B"].request_id # rq["A"].request_id <=> rq["B"].token # rq["A"].token

\* A's request carried an upstream trace and parent; its handler called the
\* service without headers of its own, and B handles the call under A's
\* trace with A's request id as parent and a request id of its own.
C15_Witness ==
    /\ Hop /\ rq["B"].supplied = None
    /\ pc["A"] = "dispatched" /\ pc["B"] = "dispatched"
    /\ CallerUntouched
    /\ rq["A"].trace_id = UpstreamTrace
    /\ rq["A"].parent_span_id = UpstreamSpan
    /\ get_trace_id(ctx["B"]) = UpstreamTrace
    /\ get_parent_span_id(ctx["B"]) = rq["A"].request_id
    /\ get_request_id(ctx["B"]) # rq["A"].request_id

\* The union of two mappings in which the second wins on a shared key.
UnionPreferring(mapped, supplied) ==
    [n \in HeaderNames |->
        IF supplied # None /\ n \in HeaderKeys(supplied) THEN supplied[n] ELSE mapped[n]]

\* C16: Outbound header merge precedence.  The headers TracedHttpClient sends
\* are the union of get_trace_headers() and the caller-supplied headers: on a
\* key both hold the caller-supplied value is sent, and every key only one of
\* them holds is sent with its value.
C16_MergePrecedence ==
    /\ Hop => rq["B"].headers =
                  UnionPreferring(get_trace_headers(Caller, cfg.env), rq["B"].supplied)
    /\ \A t \in ReqTasks, supplied \in CallerHeaders :
           LET mapped == get_trace_headers(ctx[t], cfg.env)
               sent == _merge_headers(ctx[t], cfg.env, supplied)
           IN  \A n \in HeaderNames :
                   /\ (supplied # None /\ supplied[n] # None) => sent[n] = supplied[n]
                   /\ (supplied = None \/ supplied[n] = None) => sent[n] = mapped[n]

\* A call whose caller supplied an X-Trace-ID other than the one its context
\* holds and an X-Request-ID: the supplied trace id was sent, with the
\* supplied X-Request-ID and the mapper's X-Parent-Span-ID.
C16_Witness ==
    /\ Hop
    /\ rq["B"].supplied # None
    /\ Truthy(get_trace_id(Caller)) /\ get_trace_id(Caller) # HandlerTrace
    /\ HeaderGet(rq["B"].headers, TRACE_ID_HEADER) = HandlerTrace
    /\ HeaderGet(rq["B"].headers, REQUEST_ID_HEADER) = HandlerRequest
    /\ HeaderGet(rq["B"].headers, PARENT_SPAN_ID_HEADER) = get_request_id(Caller)
    /\ get_request_id(Caller) # None

\* ------------------------------------------------------------ request logging

\* The path of t's request is in the middleware's skip set.
Skipped(t) == rq[t].path \in SkipPaths(cfg)

\* C17: Skip set.  A successful request whose path is in the skip set gets
\* the response headers every request gets (X-Trace-ID, X-Request-ID,
\* X-Response-Time, X-Served-By, and X-Deployment-ID when configured) and has
\* its context bound before the handler and cleared after it, but neither a
\* "Request started" nor a "Request completed" line is logged for it; for a
\* successful request outside the skip set both lines are logged once when
\* log_requests is on.
C17_SkipSet ==
    \A t \in ReqTasks : Responded(t) =>
        /\ TracingHeaders(t)
        /\ Truthy(cfg.env.DEPLOYMENT_ID) =>
               HeaderGet(Out(t), DEPLOYMENT_ID_HEADER) = cfg.env.DEPLOYMENT_ID
        /\ Once(t, "context_bound") /\ Once(t, "context_cleared")
        /\ Before(t, "context_bound", "dispatched")
        /\ Before(t, "handler_returned", "context_cleared")
        /\ AllUnset(ctx[t])
        /\ Skipped(t) => (Never(t, "log_started") /\ Never(t, "log_completed"))
        /\ (~Skipped(t) /\ cfg.log_requests) =>
               (Once(t, "log_started") /\ Once(t, "log_completed"))

\* A response to a request for a path of a configured skip set, from a
\* middleware that logs requests and has a deployment identifier.
C17_Witness ==
    /\ Responded("A")
    /\ cfg.log_requests
    /\ cfg.skip_paths # None
    /\ rq["A"].path = "/custom"
    /\ Skipped("A")
    /\ Never("A", "log_started")
    /\ HeaderGet(Out("A"), DEPLOYMENT_ID_HEADER) = cfg.env.DEPLOYMENT_ID
    /\ Truthy(cfg.env.DEPLOYMENT_ID)

\* The "Request failed" lines of t's request.
FailedLines(t) == {i \in 1..Len(rq[t].hist) : rq[t].hist[i].ev = "log_failed"}

\* What C18 says of a request of task t whose handler raised.
FailureLine(t) ==
    /\ Cardinality(FailedLines(t)) = 1
    /\ \A i \in FailedLines(t) : rq[t].hist[i].error = Str(rq[t].thrown)
    /\ Before(t, "log_failed", "context_cleared")
    /\ Before(t, "log_failed", "raised")
    /\ rq[t].result.kind = "raised"

\* C18 as claimed: whenever the handler raises an exception, the middleware
\* logs a "Request failed" line that includes the error before re-raising,
\* also when the path is in the skip set and also when log_requests is false.
C18_Original ==
    \A t \in ReqTasks : (pc[t] = "done" /\ rq[t].thrown # NoError) => FailureLine(t)

\* C18, amended: whenever the handler raises an instance of Exception; an
\* error that is not one (asyncio.CancelledError of a cancelled request)
\* leaves dispatch without a "Request failed" line.
C18_FailureLogged ==
    \A t \in ReqTasks : (pc[t] = "done" /\ rq[t].thrown # NoError) =>
        IF rq[t].thrown.is_exception THEN FailureLine(t)
        ELSE Never(t, "log_failed") /\ rq[t].result.kind = "raised"

\* The handler of a request for a skipped path raised, in a middleware with
\* log_requests off: no start line, and a failure line with the error.
C18_Witness ==
    /\ pc["A"] = "done"
    /\ rq["A"].thrown \in HandlerErrors
    /\ ~cfg.log_requests
    /\ Skipped("A")
    /\ Never("A", "log_started")
    /\ \E i \in FailedLines("A") : rq["A"].hist[i].error = "Test error"

\* ------------------------------------------------------- trace id functions

\* parse_trace_id has been called on the string held.
Parsed == ids.origin # "none" /\ ids.call.kind # "none"

Segments(x) == Split(x, "-")

\* Valid hexadecimal as Python's int(x, 16) has it: hexadecimal digits in
\* either case, with an optional sign, an optional 0x prefix, single
\* underscores between digits, and blanks around.
ValidHexadecimal(x) == IsHexInt(x)

C20_RoundTrip ==
    ids.origin = "generated" =>
        /\ Parsed =>
               IF ids.call.kind # "returned" THEN FALSE
               ELSE LET result == ids.call.value
                    IN  /\ result.valid = TRUE
                        /\ result.service_short = ids.service_short
                        /\ result.timestamp \in IdClockReadings
                        /\ Hex(result.timestamp) = Segments(ids.trace_id)[1]
                        /\ result.random \in RandomTokens
        /\ (\A i \in 1..Len(ids.service_short) : ids.service_short[i] # "-") =>
               /\ Len(Segments(ids.trace_id)) = 3
               /\ Len(Segments(ids.trace_id)[2]) = 2 * TokenBytes
               /\ Segments(ids.trace_id)[3] = ids.service_short

\* An id generated for a service_short with "-" in it was parsed back.
C20_Witness ==
    /\ Parsed
    /\ ids.origin = "generated"
    /\ ids.service_short = <<"m", "y", "-", "s", "e", "r", "v", "i", "c", "e">>
    /\ ids.call.kind = "returned"
    /\ ids.call.value.valid
    /\ ids.call.value.service_short = ids.service_short
    /\ Len(Segments(ids.trace_id)) = 4

\* C25 as claimed: when the handler runs, get_parent_span_id() is the inbound
\* X-Parent-Span-ID value if the request carried one and is unset if it did
\* not, whatever the Context Store held for the task before the request.
C25_ParentSpanBinding ==
    \A t \in ReqTasks : Started(t) =>
        get_parent_span_id(AtHandler(t)) =
            HeaderGet(rq[t].headers, PARENT_SPAN_ID_HEADER)

\* The lifecycle log lines of request t, as positions of its history.
LifecycleLines(t) ==
    {i \in 1..Len(rq[t].hist) :
        rq[t].hist[i].ev \in {"log_started", "log_completed", "log_failed"}}

\* Position i of request t lies after CONTEXT_BOUND and strictly before
\* CONTEXT_CLEARED.
WhileBound(t, i) ==
    /\ \E j \in Pos(t, "context_bound") : j < i
    /\ \A j \in Pos(t, "context_cleared") : i < j

\* Context c holds the trace_id and the request_id of request t.
HoldsIds(c, t) ==
    /\ get_trace_id(c) = rq[t].trace_id
    /\ get_request_id(c) = rq[t].request_id

ReadsIdsOf(u, t) ==
    \/ get_trace_id(ctx[u]) = rq[t].trace_id
    \/ get_request_id(ctx[u]) = rq[t].request_id

\* Request t has reached CONTEXT_CLEARED.
Cleared(t) == Started(t) /\ ~Never(t, "context_cleared")

\* C27 as claimed: once a request has reached CONTEXT_CLEARED no task reads
\* its trace_id or request_id from the Context Store, the tasks started by
\* the handler during the request included.
C27_Original ==
    \A t \in ReqTasks : Cleared(t) =>
        \A u \in Tasks : pc[u] # "unborn" => ~ReadsIdsOf(u, t)

\* C27, amended: once a request has reached CONTEXT_CLEARED the task that
\* served it reads no identifier from the Context Store; a task started by
\* the handler during the request keeps the copy of the store it was created
\* with, the request's trace_id and request_id included.
C27_NoLeakInOwnTask ==
    \A t \in ReqTasks : Cleared(t) =>
        /\ AllUnset(ctx[t])
        /\ \A u \in Tasks \ ReqTasks : pc[u] # "unborn" => ctx[u] = born[u]

\* The request is over and its task reads nothing, while the task its
\* handler started still reads the request's trace_id and request_id.
C27_Witness ==
    /\ Cleared("A")
    /\ AllUnset(ctx["A"])
    /\ pc["C"] = "idle"
    /\ rq["A"].trace_id # None
    /\ get_trace_id(ctx["C"]) = rq["A"].trace_id
    /\ get_request_id(ctx["C"]) = rq["A"].request_id

\* The 'Request completed' line of request t was written.
CompletedLogged(t) == ~Never(t, "log_completed")

\* The 'Request failed' line of request t was written.
FailedLogged(t) == ~Never(t, "log_failed")

Suppressed(t) ==
    /\ Never(t, "log_started")
    /\ Never(t, "log_completed")

\* The paths of the list s.
ListedPaths(s) == {s[i] : i \in 1..Len(s)}

\* C29 as claimed: whenever a skip_paths list is passed to TracingMiddleware
\* (with request logging on), start/completion logging is suppressed for
\* exactly the paths in that list and for no other path; the default skip
\* paths apply only when skip_paths is not passed.
C29_EffectiveSkipSet ==
    \A t \in ReqTasks : (Responded(t) /\ cfg.log_requests) =>
        (Suppressed(t) <=>
            rq[t].path \in (IF cfg.skip_paths # None
                            THEN ListedPaths(cfg.skip_paths)
                            ELSE ListedPaths(DefaultSkipPaths)))

\* The underlying client is created on first use, and neither by the
\* constructor nor by __aenter__.
LazyCreation ==
    /\ http.last.op \in {"init", "aenter"} =>
           /\ http.made = http.last.made
           /\ http.client = http.last.before
    /\ (http.last.op = "request" /\ http.last.before = NoClient) =>
           /\ http.made = http.last.made + 1
           /\ http.client = http.made

\* Since a close() last returned, at most one client was created and every
\* _get_client() call returned the same one.
OneClientBetweenCloses ==
    /\ Cardinality(http.created) <= 1
    /\ Cardinality(http.returned) <= 1
    /\ (http.last.op = "request" /\ http.last.before # NoClient) =>
           /\ http.made = http.last.made
           /\ http.client = http.last.before

\* close() releases the client and leaves the wrapper with none: when a
\* close() has returned the wrapper holds no client, and every client the
\* wrapper no longer holds had its aclose() called.
CloseReleases ==
    /\ http.last.op = "closed" => http.client = NoClient
    /\ \A c \in 1..http.made : c = http.client \/ c \in http.aclosed

\* close() with no client does nothing.
CloseWithoutClient ==
    http.last.op = "close_none" =>
        /\ http.last.before = NoClient
        /\ http.client = NoClient
        /\ http.made = http.last.made

\* A request made after close() returned does not use the closed client.
NewClientAfterClose ==
    /\ http.returned \cap http.released = {}
    /\ http.client \notin http.released

\* C24 as claimed: the underlying client is created lazily on first use and
\* not by construction or by entering the async context; between two close()
\* calls at most one client is created and every _get_client() call returns
\* it; close() (and leaving the async context) releases it and leaves the
\* wrapper with no client, is a no-op when there is none, and a request made
\* after close() creates a new client instead of using the closed one.
C24_ClientLifecycle ==
    /\ LazyCreation
    /\ OneClientBetweenCloses
    /\ CloseReleases
    /\ CloseWithoutClient
    /\ NewClientAfterClose

\* The run of run_checks in progress or last made, and the _checks dict of
\* its checker as it is now.
HealthRun == health.run
HealthRunChecks == health.checks[health.run.checker]

\* The status run_checks must give a check that did o.
HealthStatusFor(o) ==
    CASE o = "truthy" -> "healthy"
      [] o = "falsy" -> "unhealthy"
      [] o = "hangs" -> "timeout"
      [] OTHER -> "error"

StartupOver == startup.state \in {"returned", "raised"}

\* Some check added as required ended with a status other than 'pass'.
RequiredCheckFailed ==
    \E j \in 1..Len(startup.statuses) :
        startup.checks[j].required /\ startup.statuses[j] # "pass"

\* Some check added as optional ended with a status other than 'pass'.
OptionalCheckFailed ==
    \E j \in 1..Len(startup.statuses) :
        ~startup.checks[j].required /\ startup.statuses[j] # "pass"

C23_PerCheckTimeout ==
    /\ [](\A j \in 1..Len(startup.statuses) :
              startup.outcomes[j] = "hangs" => startup.statuses[j] = "timeout")
    /\ [](startup.state # "blocked")
    /\ (startup.state = "running") ~> StartupOver

\* The checks ever registered under the service name app a was set up for:
\* per check name the function registered last.
EverRegistered(a) == health.ever[health.routes[a].service_name]

\* C30: Health checker registry.  get_health_checker(name) returns the same
\* HealthChecker for the same service name for the life of the process, so
\* after any sequence of setup_health_routes / register_check calls the
\* checks run by /health for a service are all checks ever registered under
\* that service name (the latest function per check name), those registered
\* through a different app's setup_health_routes call included.
C30_Registry ==
    /\ \A n \in ServiceNames : Cardinality(health.given[n]) <= 1
    /\ \A a \in Apps : health.routes[a].checker # NoChecker =>
           /\ health.routes[a].checker = health.registry[health.routes[a].service_name]
           /\ health.checks[health.routes[a].checker] = EverRegistered(a)
    /\ HealthRun.state = "running" =>
           \A j \in 1..Len(HealthRun.calls) :
               HealthRun.calls[j] = EverRegistered(HealthRun.app)[j]
    /\ HealthRun.state = "returned" =>
           /\ HealthRun.calls = HealthRun.registered
           /\ ItemKeys(HealthRun.results) = ItemKeys(HealthRun.registered)

\* /health of app1 ran the checks that app2's setup_health_routes call
\* registered under the same service name: the database check app2 put in
\* place of app1's, and app2's redis check.
C30_Witness ==
    /\ HealthRun.state = "returned"
    /\ HealthRun.app = "app1"
    /\ health.routes["app2"].service_name = health.routes["app1"].service_name
    /\ health.routes["app1"].checks =
           <<[name |-> "database",
              value |-> [fn |-> "check_disk", is_async |-> FALSE]]>>
    /\ Len(health.routes["app2"].checks) = 2
    /\ HealthRun.calls =
           <<[name |-> "database",
              value |-> [fn |-> "check_database", is_async |-> TRUE]],
             [name |-> "redis",
              value |-> [fn |-> "check_disk", is_async |-> FALSE]]>>
    /\ HealthRun.calls = EverRegistered("app1")

====
